---------------------------- MODULE Spec2Model ----------------------------
(***************************************************************************)
(* Model of the token lifecycle coordinator of argocd-proxy-api            *)
(* (package auth: AuthService), as a state machine over the goroutines     *)
(* that call into one AuthService: request goroutines calling              *)
(* GetValidToken, GetTokenStatus and InvalidateToken, and the background   *)
(* routine started by StartTokenRefreshRoutine.                            *)
(*                                                                         *)
(* Time is a clock `now` counted in whole minutes.  An authenticator       *)
(* exchange (httpClient.Do on POST /session) is split in two steps: the    *)
(* request is sent while the caller holds refreshMutex, and the upstream's *)
(* reply arrives in a later step, so other goroutines interleave with an   *)
(* in-flight exchange.                                                     *)
(*                                                                         *)
(* CreateAuthenticatedRequest is modelled on top of GetValidToken, and the *)
(* generic cache (package cache: Cache[T], with T = string) as a second    *)
(* state machine over the goroutines calling Get, Set and Invalidate on    *)
(* one cache.  Each scenario has its own specification; the variables a    *)
(* scenario does not use keep their initial values in it.                  *)
(***************************************************************************)
EXTENDS Integers, FiniteSets, Sequences, TLC

\* ------------------------------------------------------------------ bounds
\* Request goroutines of the general specification.
NumCallers == 2
\* Goroutines of the concurrent-callers scenario (TestConcurrentTokenRefresh).
HerdSize == 10
\* How many times the clock advances.
MaxTicks == 3
\* Goroutines of the repeated-attempts scenario, each calling GetValidToken once.
NumAttempts == 3
\* Goroutines using one cache.
NumCacheUsers == 2

\* The longest ignore pattern, in characters.
MaxPatternLen == 3

\* The longest pattern matchesPattern is tried on, in characters.
MaxMatchLen == 4

\* The most requests the upstream server receives from the ArgoCD service.
MaxRequests == 2

\* ------------------------------------------------------- program constants
\* isTokenValid: "Refresh token 5 minutes before expiration".
SafetyMargin == 5
\* refreshToken: now.Add(23 * time.Hour), in minutes.
TokenLifetime == 1380
\* TestConcurrentTokenRefresh: "requestCount > 3" fails the test.
HerdTolerance == 3

\* ------------------------------------------------------------------- sets
BG == 0
Callers == 1 .. NumCallers
HerdCallers == 1 .. HerdSize
Attempts == 1 .. NumAttempts
CacheUsers == 1 .. NumCacheUsers
\* The request goroutine of the background-routine scenario.
Observers == {1}
\* The goroutines of the general specification.
Procs == Callers \cup {BG}

\* Token strings the upstream may issue; "" is the empty token.
Tokens == {"T1", "T2"}

\* The clock advances by one of these amounts (minutes).  From a refresh, the
\* long step leaves the token 8 minutes of life (VALID), one short step more
\* leaves it exactly the safety margin, and another leaves it 2 minutes.
TickSteps == {3, TokenLifetime - 8}

NoOwner == -1
NoErr == "nil"

VARIABLES
    tokenCache,       \* a.tokenCache: *TokenCache (present = FALSE is nil)
    refreshMutex,     \* a.refreshMutex: the goroutine holding it, or NoOwner
    refreshingToken,  \* a.refreshingToken
    now,              \* time.Now(), in minutes
    ticks,            \* how many times the clock has advanced
    tickerC,          \* the routine's ticker channel holds a tick (buffer of 1)
    pc,               \* each goroutine's position
    ctxDone,          \* the context of each goroutine's current call is done
    resp,             \* the upstream's reply to each goroutine's exchange
    ret,              \* what each goroutine's last operation returned
    callExch,         \* history: exchanges made by the goroutine's current call
    waitCancelled,    \* history: ctx was cancelled while blocked behind a refresh
    cleared,          \* history: state of the store the last InvalidateToken cleared
    request,          \* the arguments of each goroutine's CreateAuthenticatedRequest call
    theCache,         \* a cache.Cache[string]: value, cachedAt, ttl, populated
    mu,               \* the cache's mu (sync.RWMutex): its writer and its readers
    cop,              \* each goroutine's position in its cache operation, and its result
    chist,            \* history: the cache's most recent Set and whether it still stands
    config,           \* the *config.Config: ProjectGroups, IgnoredProjects, CacheTTL
    cfgop,            \* the call being made on the Config, and its result
    svc               \* the ArgocdService: its auth service, its call, the upstream's count

\* The variables of the configuration and of the ArgoCD service.
web == <<config, cfgop, svc>>

\* The variables outside the token coordinator: those of
\* CreateAuthenticatedRequest's callers, of the cache, of the configuration
\* and of the ArgoCD service.
lib == <<request, theCache, mu, cop, chist, web>>

\* The token coordinator's variables, the clock apart.
authVars == <<tokenCache, refreshMutex, refreshingToken, tickerC, pc, ctxDone,
              resp, ret, callExch, waitCancelled, cleared>>

vars == <<tokenCache, refreshMutex, refreshingToken, now, ticks, tickerC, pc,
          ctxDone, resp, ret, callExch, waitCancelled, cleared, lib>>

\* ------------------------------------------------------------ data values
\* A nil *TokenCache.
NilCache == [present |-> FALSE, Token |-> "", ExpiresAt |-> 0, IssuedAt |-> 0]

\* Mutant of NewTokenCache: the expiry computed from the zero time instead
\* of the time of the refresh.
NewTokenCache_FromZero(tok, t) ==
    [present |-> TRUE, Token |-> tok, ExpiresAt |-> TokenLifetime, IssuedAt |-> t]

\* refreshToken, "Cache the new token": the TokenCache built from the
\* response token at time t.
NewTokenCache(tok, t) ==
    [present |-> TRUE, Token |-> tok, ExpiresAt |-> t + TokenLifetime, IssuedAt |-> t]

\* Mutant of isTokenValid: the comparison turned round (After for Before).
isTokenValid_After(cache, t) ==
    IF ~cache.present THEN FALSE
    ELSE t > cache.ExpiresAt - SafetyMargin

\* Mutant of isTokenValid: the safety margin left out.
isTokenValid_NoMargin(cache, t) ==
    IF ~cache.present THEN FALSE
    ELSE t < cache.ExpiresAt

\* Mutant of isTokenValid: the margin taken in hours (5 * time.Hour).
isTokenValid_HourMargin(cache, t) ==
    IF ~cache.present THEN FALSE
    ELSE t < cache.ExpiresAt - 60 * SafetyMargin

\* isTokenValid: nil is invalid; otherwise time.Now().Before(ExpiresAt - 5min).
isTokenValid(cache, t) ==
    IF ~cache.present THEN FALSE
    ELSE t < cache.ExpiresAt - SafetyMargin

\* Time.Format(time.RFC3339) of a whole-minute time: the text of the time.
FormatRFC3339(t) == <<"rfc3339", t>>

\* Duration.String() of a whole-minute duration.
DurationString(d) == <<"duration", d>>

\* Mutant of TokenStatus: the time fields are always written, from a zero
\* TokenCache when the store is nil.
TokenStatus_AlwaysSixFields(cache, valid, t) ==
    [hasToken |-> cache.present,
     isValid |-> valid,
     issuedAt |-> FormatRFC3339(cache.IssuedAt),
     expiresAt |-> FormatRFC3339(cache.ExpiresAt),
     timeUntilExpiry |-> DurationString(cache.ExpiresAt - t),
     expiringSoon |-> (cache.ExpiresAt - t) < SafetyMargin]

\* Mutant of TokenStatus: expiringSoon taken as the negation of isValid.
TokenStatus_SoonIsNotValid(cache, valid, t) ==
    IF ~cache.present
    THEN [hasToken |-> FALSE, isValid |-> FALSE]
    ELSE [hasToken |-> TRUE,
          isValid |-> valid,
          issuedAt |-> FormatRFC3339(cache.IssuedAt),
          expiresAt |-> FormatRFC3339(cache.ExpiresAt),
          timeUntilExpiry |-> DurationString(cache.ExpiresAt - t),
          expiringSoon |-> ~valid]

\* GetTokenStatus: the status map built from the store, from what
\* a.isTokenValid() returned and from the clock as time.Until reads it (t).
TokenStatus(cache, valid, t) ==
    IF ~cache.present
    THEN [hasToken |-> FALSE, isValid |-> FALSE]
    ELSE [hasToken |-> TRUE,
          isValid |-> valid,
          issuedAt |-> FormatRFC3339(cache.IssuedAt),
          expiresAt |-> FormatRFC3339(cache.ExpiresAt),
          timeUntilExpiry |-> DurationString(cache.ExpiresAt - t),
          expiringSoon |-> (cache.ExpiresAt - t) < SafetyMargin]

\* The replies an exchange can end with: a 200 response carrying a token
\* (possibly empty), a non-200 status, a body that does not decode, a
\* transport error (refused, reset, the client's 10 s timeout), or the
\* request's context being done.
OkReplies == [kind : {"ok"}, token : Tokens]
FailReplies ==
    [kind : {"ok"}, token : {""}]
        \cup [kind : {"status", "malformed", "transport"}, token : {""}]
CtxReply == [kind |-> "ctx", token |-> ""]
NoReply == [kind |-> "none", token |-> ""]
AllReplies == OkReplies \cup FailReplies

\* Mutant of RefreshError: the check for an empty token left out.
RefreshError_NoEmptyCheck(r) ==
    IF r.kind \in {"transport", "ctx"} THEN "execute session request"
    ELSE IF r.kind = "status" THEN "authentication failed with status"
    ELSE IF r.kind = "malformed" THEN "decode session response"
    ELSE NoErr

\* refreshToken: the error its checks of the reply produce, in the order of
\* the code (Do's error, the status, the decode, the empty token), or nil.
RefreshError(r) ==
    IF r.kind \in {"transport", "ctx"} THEN "execute session request"
    ELSE IF r.kind = "status" THEN "authentication failed with status"
    ELSE IF r.kind = "malformed" THEN "decode session response"
    ELSE IF r.token = "" THEN "received empty token"
    ELSE NoErr

\* Mutant of CacheAfterRefresh: a failed refresh drops the stored token.
CacheAfterRefresh_DropOnError(cache, r, t) ==
    IF RefreshError(r) # NoErr THEN NilCache ELSE NewTokenCache(r.token, t)

\* Mutant of CacheAfterRefresh: the token of a 200 reply is stored before it
\* is checked for being empty.
CacheAfterRefresh_StoreUnchecked(cache, r, t) ==
    IF r.kind = "ok" THEN NewTokenCache(r.token, t) ELSE cache

\* refreshToken: the store after a reply r handled at time t.
CacheAfterRefresh(cache, r, t) ==
    IF RefreshError(r) # NoErr THEN cache ELSE NewTokenCache(r.token, t)

\* Mutant of RefreshingAfterReturn: the flag cleared at the end of the
\* function instead of in a deferred func, so only on the success path.
RefreshingAfterReturn_NotDeferred(err) == err # NoErr

\* refreshToken's deferred func: the flag after the refresh returns.
RefreshingAfterReturn(err) == FALSE

\* A nil *http.Request.
NoRequest ==
    [present |-> FALSE, Method |-> "", URL |-> "", Body |-> "nil",
     Header |-> [Authorization |-> <<>>, ContentType |-> ""]]

\* What an operation returned.
NoRet == [kind |-> "none", token |-> "", err |-> NoErr,
          status |-> [hasToken |-> FALSE, isValid |-> FALSE],
          req |-> NoRequest]
TokenRet(tok, err) == [NoRet EXCEPT !.kind = "token", !.token = tok, !.err = err]
StatusRet(st) == [NoRet EXCEPT !.kind = "status", !.status = st]
VoidRet == [NoRet EXCEPT !.kind = "void"]

RequestRet(req, err) == [NoRet EXCEPT !.kind = "request", !.req = req, !.err = err]

\* Mutant of MutexFree: Lock() returns whether or not the mutex is held.
MutexFree_NoExclusion == TRUE

\* sync.Mutex.Lock can return only when no goroutine holds the mutex.
MutexFree == refreshMutex = NoOwner

\* The store's state in the terms of the specification.
StoreState(cache, t) ==
    IF ~cache.present THEN "EMPTY"
    ELSE IF isTokenValid(cache, t) THEN "VALID" ELSE "STALE"

\* ---------------------------------------------------------- cache values
\* The values callers store (T is string) and the zero value of T.
Values == {"a", "b"}
ZeroValue == ""

\* The zero time.Time, before every time the clock shows.
ZeroTime == -1

\* The TTLs a cache is created with, in minutes: disabled (negative, zero),
\* one short clock step, and one long and one short clock step.
TTLs == {-1, 0, 3, TokenLifetime - 5}

\* cache.New(ttl): &Cache[T]{ttl: ttl}.
NewCache(ttl) ==
    [value |-> ZeroValue, cachedAt |-> ZeroTime, ttl |-> ttl, populated |-> FALSE]

\* A sync.RWMutex nobody holds.
FreeRW == [writer |-> NoOwner, readers |-> {}]

\* A goroutine outside any cache operation.
NoCacheOp == [pc |-> "idle", op |-> "none", value |-> ZeroValue, hit |-> FALSE]

\* No Set and no Invalidate has been made.  live: a Set has been made and no
\* Invalidate since; inv: an Invalidate has been made and no Set since.
\* prevAt, prevValue: the Set before the most recent one.  misses: how many
\* Gets have missed since the most recent Set (or since New), two standing
\* for two or more.
NoSet == [live |-> FALSE, inv |-> FALSE, setAt |-> ZeroTime, value |-> ZeroValue,
          prevAt |-> ZeroTime, prevValue |-> ZeroValue, misses |-> 0]

\* The history after a Set(v) made at time t.
HistAfterSet(h, v, t) ==
    [live |-> TRUE, inv |-> FALSE, setAt |-> t, value |-> v,
     prevAt |-> h.setAt, prevValue |-> h.value, misses |-> 0]

\* The history after a Get that returned `hit`.
HistAfterGet(h, hit) ==
    IF hit \/ h.misses > 1 THEN h ELSE [h EXCEPT !.misses = @ + 1]

\* No CreateAuthenticatedRequest call.
NoArgs == [method |-> "", target |-> "", body |-> "nil"]

\* A scenario without CreateAuthenticatedRequest callers and without cache
\* users: no such goroutines, and a cache nobody touches.
\* A Config with no PROJECT_GROUPS, no IGNORED_PROJECTS and caching off.
NoConfig == [ProjectGroups |-> <<>>, IgnoredProjects |-> <<>>, CacheTTL |-> 0]

\* No call is being made on the Config.
NoConfigCall == [op |-> "none", name |-> <<>>, result |-> FALSE]

\* No ArgocdService has been built.
NoService == [present |-> FALSE]

\* The configuration and the service play no part.
WebIdle ==
    /\ config = NoConfig
    /\ cfgop = NoConfigCall
    /\ svc = NoService

LibIdle ==
    /\ request = <<>>
    /\ theCache = NewCache(0)
    /\ mu = FreeRW
    /\ cop = <<>>
    /\ chist = NoSet
    /\ WebIdle

\* ------------------------------------------------------------------- Init
\* NewAuthService: no token, the mutex free, no refresh in progress.  pc0
\* gives the goroutines and where each starts.
AuthInit(pc0) ==
    /\ tokenCache = NilCache
    /\ refreshMutex = NoOwner
    /\ refreshingToken = FALSE
    /\ now = 0
    /\ ticks = 0
    /\ tickerC = FALSE
    /\ pc = pc0
    /\ ctxDone = [p \in DOMAIN pc0 |-> FALSE]
    /\ resp = [p \in DOMAIN pc0 |-> NoReply]
    /\ ret = [p \in DOMAIN pc0 |-> NoRet]
    /\ callExch = [p \in DOMAIN pc0 |-> 0]
    /\ waitCancelled = [p \in DOMAIN pc0 |-> FALSE]
    /\ cleared = "never"

\* The same in a scenario without CreateAuthenticatedRequest callers and
\* without cache users.
InitOf(pc0) == AuthInit(pc0) /\ LibIdle

\* The request goroutines are idle and the background routine is not started.
Init == InitOf([p \in Procs |-> IF p = BG THEN "bg_off" ELSE "idle"])

\* ------------------------------------------------------------ scheduling
\* A call that has returned hands its result to its caller before any other
\* step is taken: "done" is the instant of the return, at which ret[p] is
\* what the operation returned and the shared state is what it left behind.
Quiet ==
    /\ \A q \in DOMAIN pc : pc[q] # "done"
    /\ \A g \in DOMAIN cop : cop[g].pc # "done"

\* Some goroutine other than p has an exchange in flight.
RefreshInFlightByOther(p) ==
    \E q \in DOMAIN pc \ {p} : pc[q] \in {"exchange", "response"}

\* -------------------------------------------------------------- the clock
\* The background routine is inside its loop (its ticker exists).
RoutineRunning ==
    BG \in DOMAIN pc /\ pc[BG] \notin {"bg_off", "bg_stopped"}

\* Time passes.  A running routine's ticker (1 minute) has a tick pending
\* after any of these steps.
Tick ==
    /\ Quiet
    /\ ticks < MaxTicks
    /\ \E d \in TickSteps : now' = now + d
    /\ ticks' = ticks + 1
    /\ tickerC' = (tickerC \/ RoutineRunning)
    /\ UNCHANGED <<tokenCache, refreshMutex, refreshingToken, pc, ctxDone, resp,
                   ret, callExch, waitCancelled, cleared>>
    /\ UNCHANGED lib

\* ---------------------------------------------------------- GetValidToken
\* A request goroutine calls GetValidToken(ctx) with a live context and
\* reaches a.refreshMutex.Lock().
GetValidToken_Call(p) ==
    /\ Quiet
    /\ pc[p] = "idle"
    /\ pc' = [pc EXCEPT ![p] = "gvt_lock"]
    /\ UNCHANGED <<tokenCache, refreshMutex, refreshingToken, now, ticks, tickerC,
                   ctxDone, resp, ret, callExch, waitCancelled, cleared>>
    /\ UNCHANGED lib

\* a.refreshMutex.Lock() at the top of GetValidToken, and the wait branch:
\* "for a.refreshingToken { time.Sleep(100ms) }" followed by Lock().
GetValidToken_Lock(p) ==
    /\ Quiet
    /\ pc[p] \in {"gvt_lock", "gvt_wait"}
    /\ IF pc[p] = "gvt_wait" /\ refreshingToken
       THEN UNCHANGED vars
       ELSE /\ MutexFree
            /\ refreshMutex' = p
            /\ pc' = [pc EXCEPT ![p] = IF pc[p] = "gvt_lock" THEN "gvt_check"
                                                               ELSE "gvt_recheck"]
            /\ UNCHANGED <<tokenCache, refreshingToken, now, ticks, tickerC, ctxDone,
                           resp, ret, callExch, waitCancelled, cleared>>
    /\ UNCHANGED lib

\* Mutant of GetValidToken_Check: the validity check is not made under the
\* lock, so a caller that has acquired the lock always refreshes.
GetValidToken_Check_Unchecked(p) ==
    /\ Quiet
    /\ pc[p] \in {"gvt_check", "gvt_recheck"}
    /\ refreshMutex = p
    /\ refreshingToken' = TRUE
    /\ pc' = [pc EXCEPT ![p] = "exchange"]
    /\ callExch' = [callExch EXCEPT ![p] = @ + 1]
    /\ UNCHANGED <<tokenCache, refreshMutex, now, ticks, tickerC, ctxDone, resp,
                   ret, waitCancelled, cleared>>
    /\ UNCHANGED lib

\* Mutant of GetValidToken_Check: a caller that finds no valid token after
\* another caller's refresh has failed returns that caller's error without
\* an exchange of its own.
GetValidToken_Check_SharedError(p) ==
    /\ Quiet
    /\ pc[p] \in {"gvt_check", "gvt_recheck"}
    /\ refreshMutex = p
    /\ IF tokenCache.present /\ isTokenValid(tokenCache, now)
       THEN /\ ret' = [ret EXCEPT ![p] = TokenRet(tokenCache.Token, NoErr)]
            /\ pc' = [pc EXCEPT ![p] = "done"]
            /\ refreshMutex' = NoOwner
            /\ UNCHANGED <<refreshingToken, callExch>>
       ELSE IF \E q \in DOMAIN pc : q # p /\ ret[q].kind = "token" /\ ret[q].err # NoErr
       THEN /\ \E q \in DOMAIN pc :
                   /\ q # p /\ ret[q].kind = "token" /\ ret[q].err # NoErr
                   /\ ret' = [ret EXCEPT ![p] = ret[q]]
            /\ pc' = [pc EXCEPT ![p] = "done"]
            /\ refreshMutex' = NoOwner
            /\ UNCHANGED <<refreshingToken, callExch>>
       ELSE /\ refreshingToken' = TRUE
            /\ pc' = [pc EXCEPT ![p] = "exchange"]
            /\ callExch' = [callExch EXCEPT ![p] = @ + 1]
            /\ UNCHANGED <<ret, refreshMutex>>
    /\ UNCHANGED <<tokenCache, now, ticks, tickerC, ctxDone, resp, waitCancelled,
                   cleared>>
    /\ UNCHANGED lib

\* Mutant of GetValidToken_Check: the lock is released before refreshToken
\* is called, so the exchange is made with the flag set and the mutex free.
GetValidToken_Check_RefreshUnlocked(p) ==
    /\ Quiet
    /\ pc[p] \in {"gvt_check", "gvt_recheck"}
    /\ refreshMutex = p
    /\ IF tokenCache.present /\ isTokenValid(tokenCache, now)
       THEN /\ ret' = [ret EXCEPT ![p] = TokenRet(tokenCache.Token, NoErr)]
            /\ pc' = [pc EXCEPT ![p] = "done"]
            /\ UNCHANGED <<refreshingToken, callExch>>
       ELSE IF pc[p] = "gvt_check" /\ refreshingToken
       THEN /\ pc' = [pc EXCEPT ![p] = "gvt_wait"]
            /\ UNCHANGED <<ret, refreshingToken, callExch>>
       ELSE /\ refreshingToken' = TRUE
            /\ pc' = [pc EXCEPT ![p] = "exchange"]
            /\ callExch' = [callExch EXCEPT ![p] = @ + 1]
            /\ UNCHANGED ret
    /\ refreshMutex' = NoOwner
    /\ UNCHANGED <<tokenCache, now, ticks, tickerC, ctxDone, resp, waitCancelled,
                   cleared>>
    /\ UNCHANGED lib

\* Mutant of GetValidToken_Check: the Unlock is not deferred, and the return
\* of the cached token leaves the mutex held.
GetValidToken_Check_FastPathLocked(p) ==
    /\ Quiet
    /\ pc[p] \in {"gvt_check", "gvt_recheck"}
    /\ refreshMutex = p
    /\ IF tokenCache.present /\ isTokenValid(tokenCache, now)
       THEN /\ ret' = [ret EXCEPT ![p] = TokenRet(tokenCache.Token, NoErr)]
            /\ pc' = [pc EXCEPT ![p] = "done"]
            /\ UNCHANGED <<refreshMutex, refreshingToken, callExch>>
       ELSE IF pc[p] = "gvt_check" /\ refreshingToken
       THEN /\ refreshMutex' = NoOwner
            /\ pc' = [pc EXCEPT ![p] = "gvt_wait"]
            /\ UNCHANGED <<ret, refreshingToken, callExch>>
       ELSE /\ refreshingToken' = TRUE
            /\ pc' = [pc EXCEPT ![p] = "exchange"]
            /\ callExch' = [callExch EXCEPT ![p] = @ + 1]
            /\ UNCHANGED <<ret, refreshMutex>>
    /\ UNCHANGED <<tokenCache, now, ticks, tickerC, ctxDone, resp, waitCancelled,
                   cleared>>
    /\ UNCHANGED lib

\* GetValidToken under the lock: the validity check (and the check again
\* after waiting), the "already refreshing" branch, and the start of
\* refreshToken: the flag is set and the session request is sent.
GetValidToken_Check(p) ==
    /\ Quiet
    /\ pc[p] \in {"gvt_check", "gvt_recheck"}
    /\ refreshMutex = p
    /\ IF tokenCache.present /\ isTokenValid(tokenCache, now)
       THEN /\ ret' = [ret EXCEPT ![p] = TokenRet(tokenCache.Token, NoErr)]
            /\ pc' = [pc EXCEPT ![p] = "done"]
            /\ refreshMutex' = NoOwner
            /\ UNCHANGED <<refreshingToken, callExch>>
       ELSE IF pc[p] = "gvt_check" /\ refreshingToken
       THEN /\ refreshMutex' = NoOwner
            /\ pc' = [pc EXCEPT ![p] = "gvt_wait"]
            /\ UNCHANGED <<ret, refreshingToken, callExch>>
       ELSE /\ refreshingToken' = TRUE
            /\ pc' = [pc EXCEPT ![p] = "exchange"]
            /\ callExch' = [callExch EXCEPT ![p] = @ + 1]
            /\ UNCHANGED <<ret, refreshMutex>>
    /\ UNCHANGED <<tokenCache, now, ticks, tickerC, ctxDone, resp, waitCancelled,
                   cleared>>
    /\ UNCHANGED lib

\* a.httpClient.Do(req) returns: the upstream's reply, one of `replies`, or
\* the context's error when the request's context is done.
Authenticator_Respond(p, replies) ==
    /\ Quiet
    /\ pc[p] = "exchange"
    /\ \E r \in (IF ctxDone[p] THEN {CtxReply} ELSE replies) :
           resp' = [resp EXCEPT ![p] = r]
    /\ pc' = [pc EXCEPT ![p] = "response"]
    /\ UNCHANGED <<tokenCache, refreshMutex, refreshingToken, now, ticks, tickerC,
                   ctxDone, ret, callExch, waitCancelled, cleared>>
    /\ UNCHANGED lib

\* Mutant of refreshToken_Finish: a failed exchange is tried once more
\* before the error is returned.
refreshToken_Finish_Retry(p) ==
    /\ Quiet
    /\ pc[p] = "response"
    /\ IF RefreshError(resp[p]) # NoErr /\ callExch[p] < 2
       THEN /\ pc' = [pc EXCEPT ![p] = "exchange"]
            /\ callExch' = [callExch EXCEPT ![p] = @ + 1]
            /\ UNCHANGED <<tokenCache, ret, refreshingToken, refreshMutex, cleared>>
       ELSE /\ tokenCache' = CacheAfterRefresh(tokenCache, resp[p], now)
            /\ ret' = [ret EXCEPT ![p] =
                          IF RefreshError(resp[p]) # NoErr
                          THEN TokenRet("", RefreshError(resp[p]))
                          ELSE TokenRet(tokenCache'.Token, NoErr)]
            /\ refreshingToken' = RefreshingAfterReturn(RefreshError(resp[p]))
            /\ refreshMutex' = NoOwner
            /\ pc' = [pc EXCEPT ![p] = "done"]
            /\ cleared' = IF RefreshError(resp[p]) = NoErr THEN "never" ELSE cleared
            /\ UNCHANGED callExch
    /\ UNCHANGED <<now, ticks, tickerC, ctxDone, resp, waitCancelled>>
    /\ UNCHANGED lib

\* Mutant of refreshToken_Finish: GetValidToken's Unlock is not deferred, so
\* the mutex stays held when refreshToken returns an error.
refreshToken_Finish_LockedOnError(p) ==
    /\ Quiet
    /\ pc[p] = "response"
    /\ tokenCache' = CacheAfterRefresh(tokenCache, resp[p], now)
    /\ ret' = [ret EXCEPT ![p] =
                  IF RefreshError(resp[p]) # NoErr
                  THEN TokenRet("", RefreshError(resp[p]))
                  ELSE TokenRet(tokenCache'.Token, NoErr)]
    /\ refreshingToken' = RefreshingAfterReturn(RefreshError(resp[p]))
    /\ refreshMutex' = IF RefreshError(resp[p]) # NoErr THEN refreshMutex ELSE NoOwner
    /\ pc' = [pc EXCEPT ![p] = "done"]
    /\ cleared' = IF RefreshError(resp[p]) = NoErr THEN "never" ELSE cleared
    /\ UNCHANGED <<now, ticks, tickerC, ctxDone, resp, callExch, waitCancelled>>
    /\ UNCHANGED lib

\* The rest of refreshToken: the reply is checked, a token is cached with
\* time.Now(), the deferred func clears the flag, and GetValidToken's
\* deferred Unlock releases the mutex as the result is returned.
refreshToken_Finish(p) ==
    /\ Quiet
    /\ pc[p] = "response"
    /\ tokenCache' = CacheAfterRefresh(tokenCache, resp[p], now)
    /\ ret' = [ret EXCEPT ![p] =
                  IF RefreshError(resp[p]) # NoErr
                  THEN TokenRet("", RefreshError(resp[p]))
                  ELSE TokenRet(tokenCache'.Token, NoErr)]
    /\ refreshingToken' = RefreshingAfterReturn(RefreshError(resp[p]))
    /\ refreshMutex' = NoOwner
    /\ pc' = [pc EXCEPT ![p] = "done"]
    /\ cleared' = IF RefreshError(resp[p]) = NoErr THEN "never" ELSE cleared
    /\ UNCHANGED <<now, ticks, tickerC, ctxDone, resp, callExch, waitCancelled>>
    /\ UNCHANGED lib

\* The context a request goroutine passed to GetValidToken is cancelled or
\* times out while the call is blocked or its exchange is in flight.
Cancel(p) ==
    /\ Quiet
    /\ pc[p] \in {"gvt_lock", "gvt_wait", "exchange"}
    /\ ~ctxDone[p]
    /\ ctxDone' = [ctxDone EXCEPT ![p] = TRUE]
    /\ waitCancelled' = [waitCancelled EXCEPT ![p] =
                            pc[p] \in {"gvt_lock", "gvt_wait"}
                                /\ RefreshInFlightByOther(p)]
    /\ UNCHANGED <<tokenCache, refreshMutex, refreshingToken, now, ticks, tickerC,
                   pc, resp, ret, callExch, cleared>>
    /\ UNCHANGED lib

\* The per-call records of goroutine p, forgotten as its call ends.
ForgetCall(p) ==
    /\ ret' = [ret EXCEPT ![p] = NoRet]
    /\ resp' = [resp EXCEPT ![p] = NoReply]
    /\ callExch' = [callExch EXCEPT ![p] = 0]
    /\ waitCancelled' = [waitCancelled EXCEPT ![p] = FALSE]

\* The caller takes the result of its operation and is free to call again;
\* the context of the call is dropped.
Return(p) ==
    /\ pc[p] = "done"
    /\ pc' = [pc EXCEPT ![p] = "idle"]
    /\ ctxDone' = [ctxDone EXCEPT ![p] = FALSE]
    /\ ForgetCall(p)
    /\ UNCHANGED <<tokenCache, refreshMutex, refreshingToken, now, ticks, tickerC,
                   cleared>>
    /\ UNCHANGED lib

\* --------------------------------------------------------- GetTokenStatus
\* Mutant of GetTokenStatus_Lock: the status is read without waiting for
\* the mutex.
GetTokenStatus_Lock_Unguarded(p) ==
    /\ Quiet
    /\ pc[p] \in {"idle", "gts_lock"}
    /\ refreshMutex' = p
    /\ pc' = [pc EXCEPT ![p] = "gts_read"]
    /\ UNCHANGED <<tokenCache, refreshingToken, now, ticks, tickerC, ctxDone, resp,
                   ret, callExch, waitCancelled, cleared>>
    /\ UNCHANGED lib

\* A request goroutine calls GetTokenStatus and reaches its Lock().
GetTokenStatus_Call(p) ==
    /\ Quiet
    /\ pc[p] = "idle"
    /\ pc' = [pc EXCEPT ![p] = "gts_lock"]
    /\ UNCHANGED <<tokenCache, refreshMutex, refreshingToken, now, ticks, tickerC,
                   ctxDone, resp, ret, callExch, waitCancelled, cleared>>
    /\ UNCHANGED lib

\* GetTokenStatus's Lock() returns, for a goroutine blocked in it or one
\* that calls GetTokenStatus now.  (A goroutine blocked in this Lock()
\* changes nothing another goroutine reads, so the call and the acquisition
\* can be one step.)
GetTokenStatus_Lock(p) ==
    /\ Quiet
    /\ pc[p] \in {"idle", "gts_lock"}
    /\ MutexFree
    /\ refreshMutex' = p
    /\ pc' = [pc EXCEPT ![p] = "gts_read"]
    /\ UNCHANGED <<tokenCache, refreshingToken, now, ticks, tickerC, ctxDone, resp,
                   ret, callExch, waitCancelled, cleared>>
    /\ UNCHANGED lib

\* Mutant of GetTokenStatus_Read: reading the status drops a token that is
\* no longer valid.
GetTokenStatus_Read_Evicting(p) ==
    /\ Quiet
    /\ pc[p] = "gts_read"
    /\ refreshMutex = p
    /\ IF ~tokenCache.present
       THEN /\ ret' = [ret EXCEPT ![p] = StatusRet(TokenStatus(tokenCache, FALSE, now))]
            /\ refreshMutex' = NoOwner
            /\ pc' = [pc EXCEPT ![p] = "done"]
       ELSE /\ ret' = [ret EXCEPT ![p] =
                          StatusRet([hasToken |-> TRUE,
                                     isValid |-> isTokenValid(tokenCache, now)])]
            /\ pc' = [pc EXCEPT ![p] = "gts_until"]
            /\ UNCHANGED refreshMutex
    /\ tokenCache' = IF isTokenValid(tokenCache, now) THEN tokenCache ELSE NilCache
    /\ UNCHANGED <<refreshingToken, now, ticks, tickerC, ctxDone, resp,
                   callExch, waitCancelled, cleared>>
    /\ UNCHANGED lib

\* GetTokenStatus under the lock, up to a.isTokenValid(): for a nil store the
\* two-key map is returned; otherwise hasToken and isValid are set, isValid
\* from isTokenValid's reading of the clock.
GetTokenStatus_Read(p) ==
    /\ Quiet
    /\ pc[p] = "gts_read"
    /\ refreshMutex = p
    /\ IF ~tokenCache.present
       THEN /\ ret' = [ret EXCEPT ![p] = StatusRet(TokenStatus(tokenCache, FALSE, now))]
            /\ refreshMutex' = NoOwner
            /\ pc' = [pc EXCEPT ![p] = "done"]
       ELSE /\ ret' = [ret EXCEPT ![p] =
                          StatusRet([hasToken |-> TRUE,
                                     isValid |-> isTokenValid(tokenCache, now)])]
            /\ pc' = [pc EXCEPT ![p] = "gts_until"]
            /\ UNCHANGED refreshMutex
    /\ UNCHANGED <<tokenCache, refreshingToken, now, ticks, tickerC, ctxDone, resp,
                   callExch, waitCancelled, cleared>>
    /\ UNCHANGED lib

\* The rest of GetTokenStatus: the timestamps are formatted, time.Until reads
\* the clock again for timeUntilExpiry and expiringSoon, and the map is
\* returned as the deferred Unlock releases the mutex.
GetTokenStatus_Until(p) ==
    /\ Quiet
    /\ pc[p] = "gts_until"
    /\ refreshMutex = p
    /\ ret' = [ret EXCEPT ![p] =
                  StatusRet(TokenStatus(tokenCache, ret[p].status.isValid, now))]
    /\ refreshMutex' = NoOwner
    /\ pc' = [pc EXCEPT ![p] = "done"]
    /\ UNCHANGED <<tokenCache, refreshingToken, now, ticks, tickerC, ctxDone, resp,
                   callExch, waitCancelled, cleared>>
    /\ UNCHANGED lib

\* -------------------------------------------------------- InvalidateToken
\* A request goroutine calls InvalidateToken and reaches its Lock().
InvalidateToken_Call(p) ==
    /\ Quiet
    /\ pc[p] = "idle"
    /\ pc' = [pc EXCEPT ![p] = "inv_lock"]
    /\ UNCHANGED <<tokenCache, refreshMutex, refreshingToken, now, ticks, tickerC,
                   ctxDone, resp, ret, callExch, waitCancelled, cleared>>
    /\ UNCHANGED lib

\* InvalidateToken's Lock() returns, for a goroutine blocked in it or one
\* that calls InvalidateToken now.
InvalidateToken_Lock(p) ==
    /\ Quiet
    /\ pc[p] \in {"idle", "inv_lock"}
    /\ MutexFree
    /\ refreshMutex' = p
    /\ pc' = [pc EXCEPT ![p] = "inv_clear"]
    /\ UNCHANGED <<tokenCache, refreshingToken, now, ticks, tickerC, ctxDone, resp,
                   ret, callExch, waitCancelled, cleared>>
    /\ UNCHANGED lib

\* Mutant of CacheAfterInvalidate: the token string is blanked and the
\* TokenCache, with its expiry, is kept.
CacheAfterInvalidate_KeepExpiry(cache) == [cache EXCEPT !.Token = ""]

\* Mutant of CacheAfterInvalidate: nothing is cleared.
CacheAfterInvalidate_Noop(cache) == cache

\* The store after InvalidateToken: a.tokenCache = nil.
CacheAfterInvalidate(cache) == NilCache

InvalidateToken_Clear(p) ==
    /\ Quiet
    /\ pc[p] = "inv_clear"
    /\ refreshMutex = p
    /\ tokenCache' = CacheAfterInvalidate(tokenCache)
    /\ cleared' = StoreState(tokenCache, now)
    /\ ret' = [ret EXCEPT ![p] = VoidRet]
    /\ refreshMutex' = NoOwner
    /\ pc' = [pc EXCEPT ![p] = "done"]
    /\ UNCHANGED <<refreshingToken, now, ticks, tickerC, ctxDone, resp, callExch,
                   waitCancelled>>
    /\ UNCHANGED lib

\* ----------------------------------------------- StartTokenRefreshRoutine
\* main starts the routine: the goroutine creates its ticker and selects.
StartTokenRefreshRoutine ==
    /\ Quiet
    /\ pc[BG] = "bg_off"
    /\ pc' = [pc EXCEPT ![BG] = "bg_select"]
    /\ tickerC' = FALSE
    /\ UNCHANGED <<tokenCache, refreshMutex, refreshingToken, now, ticks, ctxDone,
                   resp, ret, callExch, waitCancelled, cleared>>
    /\ UNCHANGED lib

\* Mutant of Routine_Tick: the tick is received and GetValidToken is not called.
Routine_Tick_Drain ==
    /\ Quiet
    /\ pc[BG] = "bg_select"
    /\ tickerC
    /\ tickerC' = FALSE
    /\ UNCHANGED <<tokenCache, refreshMutex, refreshingToken, now, ticks, pc,
                   ctxDone, resp, ret, callExch, waitCancelled, cleared>>
    /\ UNCHANGED lib

\* case <-ticker.C: the routine calls GetValidToken(ctx) with its own context.
Routine_Tick ==
    /\ Quiet
    /\ pc[BG] = "bg_select"
    /\ tickerC
    /\ tickerC' = FALSE
    /\ pc' = [pc EXCEPT ![BG] = "gvt_lock"]
    /\ UNCHANGED <<tokenCache, refreshMutex, refreshingToken, now, ticks, ctxDone,
                   resp, ret, callExch, waitCancelled, cleared>>
    /\ UNCHANGED lib

\* Mutant of Routine_Loop: an error from GetValidToken ends the routine.
Routine_Loop_StopOnError ==
    /\ pc[BG] = "done"
    /\ pc' = [pc EXCEPT ![BG] = IF ret[BG].err # NoErr THEN "bg_stopped"
                                                        ELSE "bg_select"]
    /\ ForgetCall(BG)
    /\ UNCHANGED <<tokenCache, refreshMutex, refreshingToken, now, ticks, tickerC,
                   ctxDone, cleared>>
    /\ UNCHANGED lib

\* GetValidToken returned to the routine: an error is logged, the token is
\* discarded, and the loop selects again.
Routine_Loop ==
    /\ pc[BG] = "done"
    /\ pc' = [pc EXCEPT ![BG] = "bg_select"]
    /\ ForgetCall(BG)
    /\ UNCHANGED <<tokenCache, refreshMutex, refreshingToken, now, ticks, tickerC,
                   ctxDone, cleared>>
    /\ UNCHANGED lib

\* Mutant of Routine_Stop: the ctx.Done() case does not return from the loop.
Routine_Stop_Continue ==
    /\ Quiet
    /\ pc[BG] = "bg_select"
    /\ ctxDone[BG]
    /\ UNCHANGED vars
    /\ UNCHANGED lib

\* case <-ctx.Done(): the routine returns; the deferred ticker.Stop() runs.
Routine_Stop ==
    /\ Quiet
    /\ pc[BG] = "bg_select"
    /\ ctxDone[BG]
    /\ pc' = [pc EXCEPT ![BG] = "bg_stopped"]
    /\ tickerC' = FALSE
    /\ UNCHANGED <<tokenCache, refreshMutex, refreshingToken, now, ticks, ctxDone,
                   resp, ret, callExch, waitCancelled, cleared>>
    /\ UNCHANGED lib

\* The context given to StartTokenRefreshRoutine is cancelled (main's
\* deferred cancel, the shutdown path).
Routine_Cancel ==
    /\ Quiet
    /\ pc[BG] \notin {"bg_off", "bg_stopped"}
    /\ ~ctxDone[BG]
    /\ ctxDone' = [ctxDone EXCEPT ![BG] = TRUE]
    /\ waitCancelled' = [waitCancelled EXCEPT ![BG] =
                            pc[BG] \in {"gvt_lock", "gvt_wait"}
                                /\ RefreshInFlightByOther(BG)]
    /\ UNCHANGED <<tokenCache, refreshMutex, refreshingToken, now, ticks, tickerC,
                   pc, resp, ret, callExch, cleared>>
    /\ UNCHANGED lib

\* ---------------------------------------------------------- specification
\* The steps of GetValidToken past its call, for any goroutine running it.
GetValidToken_Step(p, replies) ==
    \/ GetValidToken_Lock(p)
    \/ GetValidToken_Check(p)
    \/ Authenticator_Respond(p, replies)
    \/ refreshToken_Finish(p)

Next ==
    \/ Tick
    \/ \E p \in Callers :
          \/ GetValidToken_Call(p)
          \/ GetTokenStatus_Lock(p)
          \/ GetTokenStatus_Read(p)
          \/ GetTokenStatus_Until(p)
          \/ InvalidateToken_Lock(p)
          \/ InvalidateToken_Clear(p)
          \/ Cancel(p)
          \/ Return(p)
    \/ \E p \in Callers \cup {BG} : GetValidToken_Step(p, AllReplies)
    \/ StartTokenRefreshRoutine
    \/ Routine_Tick
    \/ Routine_Loop
    \/ Routine_Stop
    \/ Routine_Cancel

Spec == Init /\ [][Next]_vars

\* ------------------------------------------- the concurrent-callers scenario
\* TestConcurrentTokenRefresh: HerdSize goroutines each call GetValidToken
\* once on a new AuthService; the upstream answers every session request
\* with a token; nothing invalidates the token and no time passes.  The
\* scenario starts with every goroutine launched and inside its call, at
\* a.refreshMutex.Lock().
\* The test goroutine stores its token and error and is done.
Herd_Store(p) ==
    /\ pc[p] = "done"
    /\ pc' = [pc EXCEPT ![p] = "finished"]
    /\ UNCHANGED <<tokenCache, refreshMutex, refreshingToken, now, ticks, tickerC,
                   ctxDone, resp, ret, callExch, waitCancelled, cleared>>
    /\ UNCHANGED lib

InitHerd == InitOf([p \in HerdCallers |-> "gvt_lock"])

NextHerd ==
    \E p \in HerdCallers :
        \/ GetValidToken_Step(p, OkReplies)
        \/ Herd_Store(p)

SpecHerd == InitHerd /\ [][NextHerd]_vars

\* The session requests the upstream has received from the goroutines in S
\* (the test's requestCount).
RECURSIVE RequestCount(_)
RequestCount(S) ==
    IF S = {} THEN 0
    ELSE LET p == CHOOSE q \in S : TRUE
         IN  callExch[p] + RequestCount(S \ {p})

HerdFinished == {p \in HerdCallers : pc[p] = "finished"}

\* C1: of N concurrent callers of GetValidToken on an empty store (the
\* upstream succeeding, no invalidation, no token going stale), every caller
\* that has returned has a nil error and a token, all of them the same token,
\* and the upstream has received at most 3 session requests; so it is once
\* all N have returned.
C1_ConcurrentCallersShareOneRefresh ==
    /\ \A p \in HerdFinished :
          ret[p].kind = "token" /\ ret[p].err = NoErr /\ ret[p].token \in Tokens
    /\ \A p, q \in HerdFinished : ret[p].token = ret[q].token
    /\ RequestCount(HerdCallers) <= HerdTolerance

\* All N callers have returned the stored token, one of them having made
\* the only exchange.
C1_Witness ==
    /\ HerdFinished = HerdCallers
    /\ RequestCount(HerdCallers) = 1
    /\ \A p \in HerdCallers : ret[p].token = tokenCache.Token /\ ret[p].err = NoErr

\* ------------------------------------------------------------- the claims
\* The goroutines with a session request in flight or its reply in hand.
InFlight == {p \in DOMAIN pc : pc[p] \in {"exchange", "response"}}

\* The goroutines inside code that writes a.tokenCache: refreshToken, and
\* InvalidateToken past its Lock().
Writers == {p \in DOMAIN pc : pc[p] \in {"exchange", "response", "inv_clear"}}

\* The validity predicate of the specification: now < expiresAt - 5 minutes.
Usable(cache, t) == cache.present /\ t < cache.ExpiresAt - SafetyMargin

\* C2: in every reachable state at most one authenticator exchange is in
\* flight, and at most one goroutine is inside code that writes the token
\* fields, that goroutine holding refreshMutex.
C2_OneRefreshAtATime ==
    /\ Cardinality(InFlight) <= 1
    /\ Cardinality(Writers) <= 1
    /\ \A p \in Writers : refreshMutex = p

\* An exchange is in flight while a request goroutine and the background
\* routine are both blocked inside GetValidToken.
C2_Witness ==
    /\ pc[1] = "exchange"
    /\ pc[2] = "gvt_lock"
    /\ pc[BG] = "gvt_lock"

\* C3: when the reply to the session request is a failure (transport error,
\* context done, non-200 status, malformed body, empty token), GetValidToken
\* returns an error and no token, and the store (token, issuedAt, expiresAt)
\* and what GetTokenStatus reports of it are what they were before.
C3_FailedRefreshLeavesStore ==
    [][\A p \in Procs :
          (pc[p] = "response" /\ pc'[p] # "response" /\ resp[p] \notin OkReplies)
              => /\ pc'[p] = "done"
                 /\ ret'[p].kind = "token"
                 /\ ret'[p].err # NoErr
                 /\ ret'[p].token = ""
                 /\ tokenCache' = tokenCache
                 /\ TokenStatus(tokenCache', isTokenValid(tokenCache', now'), now')
                       = TokenStatus(tokenCache, isTokenValid(tokenCache, now), now)]_vars

\* A refresh has just failed on a store that holds a stale token, which is
\* still there.
C3_Witness ==
    \E p \in Procs :
        /\ pc[p] = "done"
        /\ ret[p].kind = "token"
        /\ ret[p].err # NoErr
        /\ StoreState(tokenCache, now) = "STALE"

\* C4: at the moment GetValidToken returns a token with a nil error, the
\* store holds that token and now < expiresAt - 5 minutes.
C4_ReturnedTokenIsUsable ==
    \A p \in Procs :
        (pc[p] = "done" /\ ret[p].kind = "token" /\ ret[p].err = NoErr)
            => /\ Usable(tokenCache, now)
               /\ ret[p].token = tokenCache.Token

\* GetValidToken returns, without an exchange, a token that has 8 minutes left.
C4_Witness ==
    \E p \in Procs :
        /\ pc[p] = "done"
        /\ ret[p].kind = "token"
        /\ ret[p].err = NoErr
        /\ callExch[p] = 0
        /\ tokenCache.ExpiresAt - now = 8

\* C5: when the stored token satisfies the validity predicate as
\* GetValidToken checks it, the call returns that token with a nil error,
\* makes no exchange and changes neither the store nor the refreshing flag.
C5_FastPath ==
    [][\A p \in Procs :
          (pc[p] \in {"gvt_check", "gvt_recheck"} /\ pc'[p] # pc[p]
                /\ Usable(tokenCache, now))
              => /\ pc'[p] = "done"
                 /\ ret'[p] = TokenRet(tokenCache.Token, NoErr)
                 /\ callExch'[p] = 0
                 /\ InFlight' = InFlight
                 /\ tokenCache' = tokenCache
                 /\ refreshingToken' = refreshingToken]_vars

\* A call has returned the stored token without an exchange, after time
\* has passed since the refresh that stored it.
C5_Witness ==
    \E p \in Procs :
        /\ pc[p] = "done"
        /\ ret[p] = TokenRet(tokenCache.Token, NoErr)
        /\ callExch[p] = 0
        /\ tokenCache.present
        /\ now > tokenCache.IssuedAt

\* C6: whenever no refresh is executing, refreshing is false: the flag is
\* cleared on every exit path of a refresh.
C6_FlagClearedOnExit ==
    InFlight = {} => ~refreshingToken

\* A refresh has just ended in an error because its context was done, and
\* the flag is clear.
C6_Witness ==
    \E p \in Procs :
        /\ pc[p] = "done"
        /\ ret[p].kind = "token"
        /\ ret[p].err # NoErr
        /\ ctxDone[p]
        /\ callExch[p] = 1
        /\ ~refreshingToken

\* C7 (as claimed): a GetValidToken caller whose context was cancelled while
\* it was waiting behind another caller's in-flight refresh returns an error
\* and no token.
C7_CancelledWaiterReturnsError ==
    \A p \in Procs :
        (pc[p] = "done" /\ ret[p].kind = "token" /\ waitCancelled[p])
            => ret[p].err # NoErr /\ ret[p].token = ""

\* C8: once InvalidateToken has cleared the store (whatever the cleared
\* token's expiry) and no refresh has succeeded since, a GetValidToken call
\* that checks the store makes an exchange, the only one of that call.
C8_InvalidateForcesRefresh ==
    [][\A p \in Procs :
          /\ (pc[p] \in {"gvt_check", "gvt_recheck"} /\ pc'[p] # pc[p]
                 /\ cleared # "never")
               => /\ pc'[p] = "exchange"
                  /\ callExch[p] = 0
                  /\ callExch'[p] = 1
          /\ callExch'[p] <= 1]_vars

\* A call is making its exchange after InvalidateToken cleared a VALID token.
C8_Witness ==
    \E p \in Procs :
        /\ cleared = "VALID"
        /\ pc[p] = "exchange"
        /\ callExch[p] = 1

\* C9: from InvalidateToken until a refresh succeeds the store is EMPTY,
\* whatever it held before (also when it was already empty), and
\* GetTokenStatus reports hasToken false and isValid false.
C9_InvalidateEmptiesStore ==
    cleared # "never" =>
        /\ tokenCache = NilCache
        /\ StoreState(tokenCache, now) = "EMPTY"
        /\ \A p \in Procs :
              (pc[p] = "done" /\ ret[p].kind = "status")
                  => ~ret[p].status.hasToken /\ ~ret[p].status.isValid

\* GetTokenStatus has just reported on a store that InvalidateToken cleared
\* while it held a VALID token.
C9_Witness ==
    \E p \in Procs :
        /\ cleared = "VALID"
        /\ pc[p] = "done"
        /\ ret[p].kind = "status"

\* C10: GetTokenStatus, from its Lock() to its return, starts no exchange
\* and leaves token, issuedAt, expiresAt and the refreshing flag unchanged.
C10_StatusIsReadOnly ==
    [][\A p \in Procs :
          (pc[p] \in {"gts_read", "gts_until"} \/ pc'[p] \in {"gts_read", "gts_until"})
              => /\ tokenCache' = tokenCache
                 /\ refreshingToken' = refreshingToken
                 /\ InFlight' = InFlight
                 /\ callExch' = callExch]_vars

\* GetTokenStatus has just reported on a STALE store, which still holds
\* its token.
C10_Witness ==
    \E p \in Procs :
        /\ pc[p] = "done"
        /\ ret[p].kind = "status"
        /\ ret[p].status.hasToken
        /\ ~ret[p].status.isValid
        /\ StoreState(tokenCache, now) = "STALE"

\* The goroutines to which GetTokenStatus has just returned a status.
StatusReturned == {p \in Procs : pc[p] = "done" /\ ret[p].kind = "status"}

TokenReturned == {p \in Procs : pc[p] = "done" /\ ret[p].kind = "token"}

\* C12: one invocation of GetValidToken makes at most one authenticator
\* exchange, whichever branch it takes: none on the fast path, and exactly one
\* when it returns an error (a failure is not retried within the call).
C12_OneAttemptPerCall ==
    \A p \in Procs :
        /\ callExch[p] \in {0, 1}
        /\ p \in InFlight => callExch[p] = 1
        /\ (p \in TokenReturned /\ ret[p].err # NoErr) => callExch[p] = 1
        /\ (p \in TokenReturned /\ resp[p] = NoReply) => callExch[p] = 0

\* GetValidToken has just returned the error of a non-200 reply after its
\* one exchange.
C12_Witness ==
    \E p \in TokenReturned :
        /\ ret[p].err = "authentication failed with status"
        /\ callExch[p] = 1

\* ------------------------------------------ the repeated-attempts scenario
\* NumAttempts goroutines each call GetValidToken once on a new AuthService,
\* in any order and overlapping in any way; the upstream answers each
\* session request with any reply, and any call's context may be cancelled.  Each goroutine keeps what its call returned.  The scenario
\* starts with every goroutine inside its call, at a.refreshMutex.Lock().
InitRecover == InitOf([p \in Attempts |-> "gvt_lock"])

NextRecover ==
    \E p \in Attempts :
        \/ GetValidToken_Step(p, AllReplies)
        \/ Cancel(p)
        \/ Herd_Store(p)

\* Every goroutine that can take a step of its call eventually takes one
\* (sync.Mutex hands the lock to a starving waiter; httpClient.Do returns
\* within its 10 s timeout), and stores what the call returned.
FairRecover ==
    \A p \in Attempts :
        /\ SF_vars(GetValidToken_Step(p, AllReplies))
        /\ WF_vars(Herd_Store(p))

SpecRecover == InitRecover /\ [][NextRecover]_vars /\ FairRecover

\* The goroutines of the scenario whose call has returned.
AttemptReturned == {p \in Attempts : pc[p] \in {"done", "finished"}}

\* The goroutines past Lock() in an operation, before its Unlock().
LockHolders ==
    {p \in DOMAIN pc :
        pc[p] \in {"gvt_check", "gvt_recheck", "exchange", "response",
                   "gts_read", "gts_until", "inv_clear"}}

\* The store is nil or a whole TokenCache as refreshToken writes it.
StoreIntact ==
    \/ tokenCache = NilCache
    \/ /\ tokenCache.present
       /\ tokenCache.Token \in Tokens
       /\ tokenCache.IssuedAt <= now
       /\ tokenCache.ExpiresAt = tokenCache.IssuedAt + TokenLifetime

\* C13: after any sequence of failed refreshes (cancelled ones included) a
\* call of GetValidToken returns an error only when its own exchange failed:
\* a call that finds a usable token or whose exchange the authenticator
\* answers with a token returns that token with a nil error.  No failure
\* leaves the lock held, the refreshing flag set or the store in pieces, and
\* every call returns.
C13_FailuresAreRecoverable ==
    /\ [](\A p \in AttemptReturned :
            /\ ret[p].err # NoErr => resp[p] \in FailReplies \cup {CtxReply}
            /\ resp[p] \in OkReplies => ret[p] = TokenRet(resp[p].token, NoErr)
            /\ resp[p] = NoReply => ret[p].err = NoErr /\ ret[p].token \in Tokens)
    /\ [](LockHolders = {} => refreshMutex = NoOwner /\ ~refreshingToken)
    /\ []StoreIntact
    /\ <>(\A p \in Attempts : pc[p] = "finished")

\* One call failed on the upstream's reply, one failed on its cancelled
\* context, and a later one has just returned the token of its own exchange.
C13_Witness ==
    \E p, q, r \in Attempts :
        /\ pc[p] = "finished" /\ ret[p].err = "authentication failed with status"
        /\ pc[q] = "finished" /\ resp[q] = CtxReply /\ ret[q].err # NoErr
        /\ pc[r] = "done" /\ callExch[r] = 1 /\ ret[r].err = NoErr
        /\ ret[r].token = tokenCache.Token

\* C14: when GetValidToken returns an error to the background routine, the
\* routine only goes back to its select: nothing of the coordinator or of any
\* caller changes, the lock is free and the flag clear.  The routine leaves
\* its select only for another GetValidToken call on a tick, or to stop when
\* its context is done; a pending tick can always be taken.  A caller whose
\* GetValidToken finds no usable token makes its own exchange.
C14_RoutineSurvivesFailure ==
    /\ [](pc[BG] = "done" /\ ret[BG].err # NoErr
             => refreshMutex = NoOwner /\ ~refreshingToken)
    /\ [](pc[BG] = "bg_select" /\ tickerC /\ Quiet => ENABLED Routine_Tick)
    /\ [][(pc[BG] = "done" /\ ret[BG].err # NoErr)
             => /\ pc'[BG] = "bg_select"
                /\ tokenCache' = tokenCache
                /\ refreshMutex' = refreshMutex
                /\ refreshingToken' = refreshingToken
                /\ \A p \in Callers : pc'[p] = pc[p] /\ ret'[p] = ret[p]]_vars
    /\ [][(pc[BG] = "bg_select" /\ pc'[BG] # "bg_select")
             => \/ pc'[BG] = "gvt_lock" /\ tickerC
                \/ pc'[BG] = "bg_stopped" /\ ctxDone[BG]]_vars
    /\ [][\A p \in Callers :
             (pc[p] \in {"gvt_check", "gvt_recheck"} /\ pc'[p] # pc[p]
                   /\ ~Usable(tokenCache, now))
                 => pc'[p] = "exchange" /\ callExch'[p] = 1]_vars

\* A refresh has just failed inside the routine while a caller is at the
\* Lock() of its own GetValidToken call.
C14_Witness ==
    /\ pc[BG] = "done"
    /\ ret[BG].err # NoErr
    /\ callExch[BG] = 1
    /\ \E p \in Callers : pc[p] = "gvt_lock"

\* ----------------------------------------- the background-routine scenario
\* main creates the AuthService and starts the refresh routine; time passes;
\* the upstream answers every session request with a token; the routine's
\* context may be cancelled.  No goroutine but the routine calls
\* GetValidToken: the request goroutine calls only GetTokenStatus (the
\* health check) and InvalidateToken.
InitRoutine == InitOf([p \in Observers \cup {BG} |-> IF p = BG THEN "bg_off" ELSE "idle"])

\* The steps of the routine's loop and of the GetValidToken calls it makes.
RoutineStep ==
    \/ Routine_Tick
    \/ Routine_Loop
    \/ GetValidToken_Step(BG, OkReplies)

\* An operation of the request goroutine from its Lock() to its return.
ObserverStep(p) ==
    \/ GetTokenStatus_Read(p)
    \/ GetTokenStatus_Until(p)
    \/ InvalidateToken_Clear(p)
    \/ Return(p)

NextRoutine ==
    \/ Tick
    \/ StartTokenRefreshRoutine
    \/ RoutineStep
    \/ Routine_Stop
    \/ Routine_Cancel
    \/ \E p \in Observers :
          \/ GetTokenStatus_Lock(p)
          \/ InvalidateToken_Lock(p)
          \/ ObserverStep(p)

\* Time passes while the clock has steps left; a goroutine that can run
\* does (the lock is handed to a starving waiter; httpClient.Do returns
\* within its timeout); select takes a ready ctx.Done() case sooner or later
\* (it chooses among ready cases at random).
FairRoutine ==
    /\ SF_vars(Tick)
    /\ SF_vars(RoutineStep)
    /\ SF_vars(Routine_Stop)
    /\ \A p \in Observers : SF_vars(ObserverStep(p))

SpecRoutine == InitRoutine /\ [][NextRoutine]_vars /\ FairRoutine

\* C15: once the context given to StartTokenRefreshRoutine is done the
\* routine eventually returns; after that it never calls GetValidToken or
\* the authenticator again, and it holds neither the lock nor the flag.
C15_RoutineStopsOnCancel ==
    /\ ctxDone[BG] ~> pc[BG] = "bg_stopped"
    /\ [](pc[BG] = "bg_stopped"
             => /\ refreshMutex # BG
                /\ BG \notin InFlight
                /\ ~refreshingToken
                /\ ~tickerC)
    /\ [][pc[BG] = "bg_stopped"
             => /\ pc'[BG] = "bg_stopped"
                /\ callExch'[BG] = callExch[BG]
                /\ InFlight' = InFlight
                /\ tokenCache'.present => tokenCache' = tokenCache]_vars

\* The routine has returned after its context was cancelled, leaving a
\* store without a usable token, and time has passed since.
C15_Witness ==
    /\ pc[BG] = "bg_stopped"
    /\ ctxDone[BG]
    /\ ~Usable(tokenCache, now)
    /\ ticks = MaxTicks

\* The routine's loop is live with a tick to come: pending, still to be
\* delivered by the clock, or being served by a GetValidToken call.
RoutineWillCheck ==
    /\ RoutineRunning
    /\ \/ tickerC
       \/ ticks < MaxTicks
       \/ pc[BG] \notin {"bg_select", "done"}

\* C16: with the routine running, the authenticator succeeding and no other
\* caller of GetValidToken, a store that holds no usable token (EMPTY, or
\* STALE: inside the 5-minute margin or expired) comes to hold a usable one,
\* unless the routine's context is cancelled first; every token stored is
\* stored by the routine.
C16_RoutineKeepsTokenWarm ==
    /\ (RoutineWillCheck /\ ~Usable(tokenCache, now))
          ~> (Usable(tokenCache, now) \/ ctxDone[BG])
    /\ [][(tokenCache'.present /\ tokenCache' # tokenCache)
             => /\ pc[BG] = "response" /\ pc'[BG] = "done"
                /\ ~Usable(tokenCache, now)
                /\ Usable(tokenCache', now')]_vars

\* The routine's GetValidToken call has just stored a token late in the run,
\* having found the store empty or its token no longer usable.
C16_Witness ==
    /\ pc[BG] = "done"
    /\ ret[BG].err = NoErr
    /\ callExch[BG] = 1
    /\ Usable(tokenCache, now)
    /\ tokenCache.IssuedAt = now
    /\ now = TokenLifetime - 2

\* ---------------------------------------------- CreateAuthenticatedRequest
\* The request goroutine of the authenticated-request scenario.
Requesters == {1}

\* The methods callers pass: two ordinary ones, the empty string, and a
\* string that is not an HTTP token.
Methods == {"GET", "POST", "", "GE T"}

\* The targets callers pass: a plain URL, the same with an empty port, and a
\* string url.Parse rejects (a bad percent escape).
PlainTarget == "https://argocd/api/v1/projects"
EmptyPortTarget == "https://argocd:/api/v1/projects"
BadTarget == "https://argocd/%zz"
Targets == {PlainTarget, EmptyPortTarget, BadTarget}

\* The bodies callers pass: nil or some bytes.
Bodies == {"nil", "{}"}

\* net/http validMethod, of the method strings above: a non-empty token.
validMethod(m) == m \in {"GET", "POST"}

\* url.Parse, of the target strings above.
urlParse(t) ==
    IF t = BadTarget
    THEN [ok |-> FALSE, Scheme |-> "", Host |-> "", Path |-> ""]
    ELSE [ok |-> TRUE, Scheme |-> "https",
          Host |-> IF t = EmptyPortTarget THEN "argocd:" ELSE "argocd",
          Path |-> "/api/v1/projects"]

\* net/http removeEmptyPort: a host ending in ":" loses the colon.
removeEmptyPort(host) == IF host = "argocd:" THEN "argocd" ELSE host

\* URL.String(), of the URLs above.
urlString(u) ==
    IF u.Host = "argocd:" THEN EmptyPortTarget ELSE PlainTarget

\* http.NewRequestWithContext(ctx, method, url, body) with a non-nil ctx: an
\* empty method means GET; an invalid method or an unparsable url is an
\* error; the url's empty port is removed.
NewRequestWithContext(method, target, body) ==
    LET m == IF method = "" THEN "GET" ELSE method
        u == urlParse(target)
    IN  IF ~validMethod(m) \/ ~u.ok
        THEN [ok |-> FALSE, req |-> NoRequest]
        ELSE [ok |-> TRUE,
              req |-> [NoRequest EXCEPT
                          !.present = TRUE,
                          !.Method = m,
                          !.URL = urlString([u EXCEPT !.Host = removeEmptyPort(u.Host)]),
                          !.Body = body]]

\* fmt.Sprintf("Bearer %s", token).
Bearer(token) == <<"Bearer", token>>

\* Mutant of CreateAuthenticatedRequest: the error of GetValidToken is
\* ignored and the request is built with the empty token it returned.
CreateAuthenticatedRequest_IgnoreError(gvt, args) ==
    LET r == NewRequestWithContext(args.method, args.target, args.body)
    IN  IF ~r.ok
        THEN RequestRet(NoRequest, "failed to create request")
        ELSE RequestRet([r.req EXCEPT
                            !.Header = [Authorization |-> Bearer(gvt.token),
                                        ContentType |-> "application/json"]],
                        NoErr)

\* CreateAuthenticatedRequest after its GetValidToken call returned gvt: the
\* token error is wrapped and returned; else the request is created, its
\* error returned, or the two headers set on it.
CreateAuthenticatedRequest(gvt, args) ==
    IF gvt.err # NoErr
    THEN RequestRet(NoRequest, "failed to get valid token")
    ELSE LET r == NewRequestWithContext(args.method, args.target, args.body)
         IN  IF ~r.ok
             THEN RequestRet(NoRequest, "failed to create request")
             ELSE RequestRet([r.req EXCEPT
                                 !.Header = [Authorization |-> Bearer(gvt.token),
                                             ContentType |-> "application/json"]],
                             NoErr)

\* A goroutine calls CreateAuthenticatedRequest(ctx, method, url, body) with
\* a live context; the call is at the Lock() of its GetValidToken(ctx).
CreateAuthenticatedRequest_Call(p) ==
    /\ Quiet
    /\ pc[p] = "idle"
    /\ \E m \in Methods, t \in Targets, b \in Bodies :
           request' = [request EXCEPT ![p] = [method |-> m, target |-> t, body |-> b]]
    /\ pc' = [pc EXCEPT ![p] = "gvt_lock"]
    /\ UNCHANGED <<tokenCache, refreshMutex, refreshingToken, now, ticks, tickerC,
                   ctxDone, resp, ret, callExch, waitCancelled, cleared>>
    /\ UNCHANGED <<theCache, mu, cop, chist, web>>

\* GetValidToken has returned to CreateAuthenticatedRequest, which returns
\* its request or error.
CreateAuthenticatedRequest_Build(p) ==
    /\ pc[p] = "done"
    /\ ret[p].kind = "token"
    /\ ret' = [ret EXCEPT ![p] = CreateAuthenticatedRequest(ret[p], request[p])]
    /\ pc' = [pc EXCEPT ![p] = "built"]
    /\ UNCHANGED <<tokenCache, refreshMutex, refreshingToken, now, ticks, tickerC,
                   ctxDone, resp, callExch, waitCancelled, cleared>>
    /\ UNCHANGED lib

\* The caller takes the request or error and is free to call again.
CreateAuthenticatedRequest_Return(p) ==
    /\ pc[p] = "built"
    /\ pc' = [pc EXCEPT ![p] = "idle"]
    /\ ctxDone' = [ctxDone EXCEPT ![p] = FALSE]
    /\ ForgetCall(p)
    /\ request' = [request EXCEPT ![p] = NoArgs]
    /\ UNCHANGED <<tokenCache, refreshMutex, refreshingToken, now, ticks, tickerC,
                   cleared>>
    /\ UNCHANGED <<theCache, mu, cop, chist, web>>

\* ------------------------------------ the authenticated-request scenario
\* One goroutine calls CreateAuthenticatedRequest again and again with any
\* of the arguments above, while time passes; the upstream answers each
\* session request with any reply, and the call's context may be cancelled.
InitRequest ==
    /\ AuthInit([p \in Requesters |-> "idle"])
    /\ request = [p \in Requesters |-> NoArgs]
    /\ theCache = NewCache(0)
    /\ mu = FreeRW
    /\ cop = <<>>
    /\ chist = NoSet
    /\ WebIdle

NextRequest ==
    \/ Tick
    \/ \E p \in Requesters :
          \/ CreateAuthenticatedRequest_Call(p)
          \/ GetValidToken_Step(p, AllReplies)
          \/ Cancel(p)
          \/ CreateAuthenticatedRequest_Build(p)
          \/ CreateAuthenticatedRequest_Return(p)

SpecRequest == InitRequest /\ [][NextRequest]_vars

\* The step in which CreateAuthenticatedRequest returns to goroutine p.
Built(p) == pc[p] = "done" /\ pc'[p] = "built"

\* C17 (as claimed): CreateAuthenticatedRequest returns an error and no
\* request whenever its GetValidToken call fails; whenever that call succeeds
\* it returns a request carrying Authorization: Bearer <the token returned>
\* and Content-Type application/json, with the caller's method and target.
C17_RequestWheneverTokenObtained ==
    [][\A p \in Requesters :
          Built(p) =>
              IF ret[p].err # NoErr
              THEN ret'[p].err # NoErr /\ ~ret'[p].req.present
              ELSE /\ ret'[p].err = NoErr
                   /\ ret'[p].req.present
                   /\ ret'[p].req.Header.Authorization = Bearer(ret[p].token)
                   /\ ret'[p].req.Header.ContentType = "application/json"
                   /\ ret'[p].req.Method = request[p].method
                   /\ ret'[p].req.URL = request[p].target]_vars

\* The method is an HTTP token or empty, and the target parses.
CanBuild(args) ==
    args.method \in {"GET", "POST", ""} /\ args.target # BadTarget

\* C17 (amended): CreateAuthenticatedRequest returns an error and no request
\* whenever its GetValidToken call fails, and also when that call succeeds
\* but the request cannot be built (invalid method, unparsable target).
\* Otherwise it returns, with a nil error, a request carrying Authorization:
\* Bearer <the token GetValidToken returned> and Content-Type
\* application/json, with the caller's body, the caller's method (GET for an
\* empty method) and the caller's target (less an empty port).
C17_RequestOrError ==
    [][\A p \in Requesters :
          Built(p) =>
              IF ret[p].err # NoErr \/ ~CanBuild(request[p])
              THEN ret'[p].err # NoErr /\ ret'[p].req = NoRequest
              ELSE /\ ret'[p].err = NoErr
                   /\ ret'[p].req.present
                   /\ ret'[p].req.Header.Authorization = Bearer(ret[p].token)
                   /\ ret[p].token = tokenCache.Token
                   /\ ret'[p].req.Header.ContentType = "application/json"
                   /\ ret'[p].req.Body = request[p].body
                   /\ ret'[p].req.Method =
                          (IF request[p].method = "" THEN "GET" ELSE request[p].method)
                   /\ ret'[p].req.URL =
                          (IF request[p].target = EmptyPortTarget THEN PlainTarget
                                                                  ELSE request[p].target)]_vars

\* CreateAuthenticatedRequest has returned a POST request with a body that
\* carries the stored token, which its GetValidToken call had just obtained.
C17_Witness ==
    \E p \in Requesters :
        /\ pc[p] = "built"
        /\ callExch[p] = 1
        /\ ret[p].err = NoErr
        /\ ret[p].req.Method = "POST"
        /\ ret[p].req.Body = "{}"
        /\ ret[p].req.Header.Authorization = Bearer(tokenCache.Token)

\* ------------------------------------------------------------- the cache
\* Mutant of GetResult: an expired value is returned with the miss.
GetResult_StaleOnMiss(c, t) ==
    IF ~c.populated THEN [value |-> ZeroValue, hit |-> FALSE]
    ELSE IF t - c.cachedAt > c.ttl THEN [value |-> c.value, hit |-> FALSE]
    ELSE [value |-> c.value, hit |-> TRUE]

\* Mutant of GetResult: a value exactly as old as the TTL is expired.
GetResult_ExpiredAtTTL(c, t) ==
    IF ~c.populated THEN [value |-> ZeroValue, hit |-> FALSE]
    ELSE IF t - c.cachedAt >= c.ttl THEN [value |-> ZeroValue, hit |-> FALSE]
    ELSE [value |-> c.value, hit |-> TRUE]

\* Cache.Get under the read lock, at time t: a miss when not populated or
\* when time.Since(c.cachedAt) > c.ttl, else the value.
GetResult(c, t) ==
    IF ~c.populated THEN [value |-> ZeroValue, hit |-> FALSE]
    ELSE IF t - c.cachedAt > c.ttl THEN [value |-> ZeroValue, hit |-> FALSE]
    ELSE [value |-> c.value, hit |-> TRUE]

\* Cache.Get's first test: "if c.ttl <= 0".
GetDisabled(c) == c.ttl <= 0

\* Mutant of SetDisabled: Set does not test the TTL.
SetDisabled_Never(c) == FALSE

\* Cache.Set's first test: "if c.ttl <= 0".
SetDisabled(c) == c.ttl <= 0

\* Mutant of AfterSet: a populated cache keeps the timestamp it has.
AfterSet_KeepStamp(c, v, t) ==
    [c EXCEPT !.value = v,
              !.cachedAt = IF c.populated THEN @ ELSE t,
              !.populated = TRUE]

\* Cache.Set under the write lock, at time t.
AfterSet(c, v, t) == [c EXCEPT !.value = v, !.cachedAt = t, !.populated = TRUE]

\* Mutant of AfterInvalidate: the value is zeroed and populated is kept.
AfterInvalidate_KeepPopulated(c) == [c EXCEPT !.value = ZeroValue]

\* Cache.Invalidate under the write lock.
AfterInvalidate(c) == [c EXCEPT !.value = ZeroValue, !.populated = FALSE]

\* c.mu.RLock() can return when no writer holds mu; c.mu.Lock() when nobody does.
\* Mutant of CanRLock: RLock() does not wait for the writer.
CanRLock_IgnoreWriter == TRUE

CanRLock == mu.writer = NoOwner
\* Mutant of CanLock: Lock() does not wait for the readers.
CanLock_IgnoreReaders == mu.writer = NoOwner

CanLock == mu.writer = NoOwner /\ mu.readers = {}

\* A goroutine calls Get: with caching disabled it returns a miss at once,
\* else its RLock() returns.
Get_Enter(g) ==
    /\ Quiet
    /\ cop[g].pc = "idle"
    /\ IF GetDisabled(theCache)
       THEN /\ cop' = [cop EXCEPT ![g] = [pc |-> "done", op |-> "Get",
                                          value |-> ZeroValue, hit |-> FALSE]]
            /\ chist' = HistAfterGet(chist, FALSE)
            /\ UNCHANGED mu
       ELSE /\ CanRLock
            /\ mu' = [mu EXCEPT !.readers = @ \cup {g}]
            /\ cop' = [cop EXCEPT ![g] = [NoCacheOp EXCEPT !.pc = "get_read",
                                                          !.op = "Get"]]
            /\ UNCHANGED chist
    /\ UNCHANGED <<authVars, now, ticks, web, request, theCache>>

\* Mutant of Get_Read: a hit renews the entry's timestamp and a miss on an
\* expired entry drops it.
Get_Read_Touch(g) ==
    /\ Quiet
    /\ cop[g].pc = "get_read"
    /\ cop' = [cop EXCEPT ![g] = [pc |-> "done", op |-> "Get",
                                  value |-> GetResult(theCache, now).value,
                                  hit |-> GetResult(theCache, now).hit]]
    /\ theCache' = IF GetResult(theCache, now).hit
                   THEN [theCache EXCEPT !.cachedAt = now]
                   ELSE [theCache EXCEPT !.populated = FALSE]
    /\ chist' = HistAfterGet(chist, GetResult(theCache, now).hit)
    /\ mu' = [mu EXCEPT !.readers = @ \ {g}]
    /\ UNCHANGED <<authVars, now, ticks, web, request>>

\* Get under the read lock: the result is computed and the deferred
\* RUnlock() runs as it is returned.
Get_Read(g) ==
    /\ Quiet
    /\ cop[g].pc = "get_read"
    /\ cop' = [cop EXCEPT ![g] = [pc |-> "done", op |-> "Get",
                                  value |-> GetResult(theCache, now).value,
                                  hit |-> GetResult(theCache, now).hit]]
    /\ chist' = HistAfterGet(chist, GetResult(theCache, now).hit)
    /\ mu' = [mu EXCEPT !.readers = @ \ {g}]
    /\ UNCHANGED <<authVars, now, ticks, web, request, theCache>>

\* A goroutine calls Set(v): with caching disabled it returns at once, else
\* its Lock() returns.
Set_Enter(g, v) ==
    /\ Quiet
    /\ cop[g].pc = "idle"
    /\ IF SetDisabled(theCache)
       THEN /\ cop' = [cop EXCEPT ![g] = [NoCacheOp EXCEPT !.pc = "done",
                                                          !.op = "Set"]]
            /\ chist' = HistAfterSet(chist, v, now)
            /\ UNCHANGED mu
       ELSE /\ CanLock
            /\ mu' = [mu EXCEPT !.writer = g]
            /\ cop' = [cop EXCEPT ![g] = [NoCacheOp EXCEPT !.pc = "set_write",
                                                          !.op = "Set",
                                                          !.value = v]]
            /\ UNCHANGED chist
    /\ UNCHANGED <<authVars, now, ticks, web, request, theCache>>

\* Set under the write lock: value, cachedAt = time.Now() and populated are
\* written and the deferred Unlock() runs.
Set_Write(g) ==
    /\ Quiet
    /\ cop[g].pc = "set_write"
    /\ theCache' = AfterSet(theCache, cop[g].value, now)
    /\ chist' = HistAfterSet(chist, cop[g].value, now)
    /\ mu' = [mu EXCEPT !.writer = NoOwner]
    /\ cop' = [cop EXCEPT ![g] = [NoCacheOp EXCEPT !.pc = "done", !.op = "Set"]]
    /\ UNCHANGED <<authVars, now, ticks, web, request>>

\* A goroutine calls Invalidate and its Lock() returns.
Invalidate_Enter(g) ==
    /\ Quiet
    /\ cop[g].pc = "idle"
    /\ CanLock
    /\ mu' = [mu EXCEPT !.writer = g]
    /\ cop' = [cop EXCEPT ![g] = [NoCacheOp EXCEPT !.pc = "inv_write",
                                                  !.op = "Invalidate"]]
    /\ UNCHANGED <<authVars, now, ticks, web, request, theCache, chist>>

\* Invalidate under the write lock: the value is zeroed, populated cleared,
\* and the deferred Unlock() runs.
Invalidate_Write(g) ==
    /\ Quiet
    /\ cop[g].pc = "inv_write"
    /\ theCache' = AfterInvalidate(theCache)
    /\ chist' = [chist EXCEPT !.live = FALSE, !.inv = TRUE]
    /\ mu' = [mu EXCEPT !.writer = NoOwner]
    /\ cop' = [cop EXCEPT ![g] = [NoCacheOp EXCEPT !.pc = "done",
                                                  !.op = "Invalidate"]]
    /\ UNCHANGED <<authVars, now, ticks, web, request>>

\* The caller takes the result of its cache operation.
Cache_Return(g) ==
    /\ cop[g].pc = "done"
    /\ cop' = [cop EXCEPT ![g] = NoCacheOp]
    /\ UNCHANGED <<authVars, now, ticks, web, request, theCache, mu, chist>>

\* ------------------------------------------------------ the cache scenario
\* cache.New(ttl) with any of the TTLs; NumCacheUsers goroutines call Get,
\* Set and Invalidate on it in any order while time passes.
InitCache ==
    /\ AuthInit(<<>>)
    /\ request = <<>>
    /\ \E ttl \in TTLs : theCache = NewCache(ttl)
    /\ mu = FreeRW
    /\ cop = [g \in CacheUsers |-> NoCacheOp]
    /\ chist = NoSet
    /\ WebIdle

NextCache ==
    \/ Tick
    \/ \E g \in CacheUsers :
          \/ Get_Enter(g)
          \/ Get_Read(g)
          \/ \E v \in Values : Set_Enter(g, v)
          \/ Set_Write(g)
          \/ Invalidate_Enter(g)
          \/ Invalidate_Write(g)
          \/ Cache_Return(g)

SpecCache == InitCache /\ [][NextCache]_vars

\* The goroutines to which Get has just returned.
GetReturned == {g \in DOMAIN cop : cop[g].pc = "done" /\ cop[g].op = "Get"}

\* C18: on a cache with TTL d > 0, after any sequence of Set, Invalidate and
\* Get, Get returns a hit if and only if a Set has been made with no
\* Invalidate since and now - (the time of the most recent Set) <= d, and a
\* hit carries the value of that Set: a read at exactly d after the Set is a
\* hit, a later one is a miss.
C18_HitIffFresh ==
    theCache.ttl > 0 =>
        \A g \in GetReturned :
            /\ cop[g].hit = (chist.live /\ now - chist.setAt <= theCache.ttl)
            /\ cop[g].hit => cop[g].value = chist.value

\* Get has just returned a hit on a value exactly as old as the TTL.
C18_Witness ==
    \E g \in GetReturned :
        /\ theCache.ttl > 0
        /\ cop[g].hit
        /\ now - chist.setAt = theCache.ttl

\* C19: a cache created with TTL <= 0 stays as New made it whatever is
\* called (Set writes nothing and takes no lock), and every Get is a miss.
C19_DisabledCache ==
    theCache.ttl <= 0 =>
        /\ theCache = NewCache(theCache.ttl)
        /\ \A g \in DOMAIN cop : cop[g].pc # "set_write"
        /\ \A g \in GetReturned : ~cop[g].hit /\ cop[g].value = ZeroValue

\* Get has just returned a miss on a cache with a negative TTL, a Set having
\* been made at this very time.
C19_Witness ==
    \E g \in GetReturned :
        /\ theCache.ttl < 0
        /\ chist.live
        /\ chist.setAt = now
        /\ ~cop[g].hit

\* C20: from an Invalidate until the next Set the cache is unpopulated with
\* the zero value and every Get is a miss, whatever the TTL and the age of
\* the entry; an Invalidate made in that state changes nothing.
C20_InvalidateImmediateIdempotent ==
    /\ [](chist.inv =>
             /\ ~theCache.populated
             /\ theCache.value = ZeroValue
             /\ \A g \in GetReturned : ~cop[g].hit)
    /\ [](AfterInvalidate(AfterInvalidate(theCache)) = AfterInvalidate(theCache))
    /\ [][\A g \in CacheUsers :
             (cop[g].pc = "inv_write" /\ cop'[g].pc = "done" /\ chist.inv)
                 => theCache' = theCache]_vars

\* Get has just missed on a cache invalidated at the time of its last Set,
\* well inside the TTL.
C20_Witness ==
    \E g \in GetReturned :
        /\ chist.inv
        /\ theCache.ttl > 0
        /\ theCache.cachedAt = now
        /\ ~cop[g].hit

\* C21: Set overwrites unconditionally.  After a Set(a) and then a Set(b), a
\* Get on a cache with TTL > 0 (no Invalidate since) is a hit exactly while
\* the second Set is no older than the TTL, however old the first is, and
\* the hit yields b, never a.
C21_SetOverwrites ==
    \A g \in GetReturned :
        (theCache.ttl > 0 /\ chist.live /\ chist.prevAt # ZeroTime)
            => /\ theCache.value = chist.value
               /\ theCache.cachedAt = chist.setAt
               /\ now - chist.setAt <= theCache.ttl
                     => cop[g].hit /\ cop[g].value = chist.value
               /\ (cop[g].hit /\ chist.prevValue # chist.value)
                     => cop[g].value # chist.prevValue

\* Get has just returned b on a cache where Set("a") is older than the TTL
\* and the later Set("b") is not.
C21_Witness ==
    \E g \in GetReturned :
        /\ theCache.ttl > 0
        /\ chist.prevValue = "a"
        /\ chist.value = "b"
        /\ chist.prevAt # ZeroTime
        /\ now - chist.prevAt > theCache.ttl
        /\ cop[g].hit
        /\ cop[g].value = "b"

\* The goroutines inside Set or Invalidate, and those inside Get, on the
\* cache (between the lock call's return and the deferred unlock).
InsideWrite == {g \in DOMAIN cop : cop[g].pc \in {"set_write", "inv_write"}}
InsideGet == {g \in DOMAIN cop : cop[g].pc = "get_read"}

\* C22: on a cache with TTL > 0 at most one Set or Invalidate is inside at a
\* time and then no Get is; and while only Gets are inside, a further Get
\* can enter: other Gets alone never block it.
C22_WritersExcludeReadersShare ==
    /\ Cardinality(InsideWrite) <= 1
    /\ InsideWrite # {} => InsideGet = {}
    /\ mu.readers = InsideGet
    /\ (theCache.ttl > 0 /\ InsideWrite = {} /\ Quiet)
          => \A g \in DOMAIN cop : cop[g].pc = "idle" => ENABLED Get_Enter(g)

\* Two Gets are inside the same cache at once.
C22_Witness ==
    /\ theCache.ttl > 0
    /\ Cardinality(InsideGet) >= 2

\* ------------------------------------------------------- the configuration
\* Project names and ignore patterns are strings, modelled as sequences of
\* one-character strings.
NameChars == {"a", "b"}
PatternChars == {"a", "*"}
Star == <<"*">>

ProjectNames ==
    {<<>>, <<"a">>, <<"b">>, <<"a", "a">>, <<"a", "b">>, <<"b", "a">>}

Patterns == UNION {[1 .. n -> PatternChars] : n \in 0 .. MaxPatternLen}

\* strings.HasPrefix, strings.HasSuffix, strings.Contains.
HasPrefix(str, prefix) ==
    /\ Len(prefix) <= Len(str)
    /\ SubSeq(str, 1, Len(prefix)) = prefix

HasSuffix(str, suffix) ==
    /\ Len(suffix) <= Len(str)
    /\ SubSeq(str, Len(str) - Len(suffix) + 1, Len(str)) = suffix

Contains(str, substr) ==
    \E i \in 0 .. Len(str) - Len(substr) :
        SubSeq(str, i + 1, i + Len(substr)) = substr

\* strings.TrimSuffix and strings.TrimPrefix remove one occurrence.
TrimSuffix(str, suffix) ==
    IF HasSuffix(str, suffix) THEN SubSeq(str, 1, Len(str) - Len(suffix)) ELSE str

TrimPrefix(str, prefix) ==
    IF HasPrefix(str, prefix) THEN SubSeq(str, Len(prefix) + 1, Len(str)) ELSE str

\* strings.Trim(str, "*") removes every leading and trailing asterisk.
RECURSIVE TrimLeft(_)
TrimLeft(str) ==
    IF str # <<>> /\ Head(str) = "*" THEN TrimLeft(Tail(str)) ELSE str

RECURSIVE TrimRight(_)
TrimRight(str) ==
    IF str # <<>> /\ str[Len(str)] = "*"
    THEN TrimRight(SubSeq(str, 1, Len(str) - 1))
    ELSE str

Trim(str) == TrimRight(TrimLeft(str))

\* Mutant of matchesPattern: the contains pattern loses one asterisk at
\* each end (TrimPrefix and TrimSuffix) instead of all of them (Trim).
matchesPattern_TrimOnce(projectName, pattern) ==
    IF projectName = pattern THEN TRUE
    ELSE IF pattern = Star THEN TRUE
    ELSE IF ~Contains(pattern, Star) THEN FALSE
    ELSE IF /\ HasPrefix(pattern, Star)
            /\ HasSuffix(pattern, Star)
            /\ TrimSuffix(TrimPrefix(pattern, Star), Star) # <<>>
         THEN Contains(projectName, TrimSuffix(TrimPrefix(pattern, Star), Star))
    ELSE IF HasSuffix(pattern, Star) /\ ~HasPrefix(pattern, Star)
         THEN HasPrefix(projectName, TrimSuffix(pattern, Star))
    ELSE IF HasPrefix(pattern, Star) /\ ~HasSuffix(pattern, Star)
         THEN HasSuffix(projectName, TrimPrefix(pattern, Star))
    ELSE FALSE

\* matchesPattern(projectName, pattern).
matchesPattern(projectName, pattern) ==
    IF projectName = pattern THEN TRUE
    ELSE IF pattern = Star THEN TRUE
    ELSE IF ~Contains(pattern, Star) THEN FALSE
    ELSE IF /\ HasPrefix(pattern, Star)
            /\ HasSuffix(pattern, Star)
            /\ Trim(pattern) # <<>>
         THEN Contains(projectName, Trim(pattern))
    ELSE IF HasSuffix(pattern, Star) /\ ~HasPrefix(pattern, Star)
         THEN HasPrefix(projectName, TrimSuffix(pattern, Star))
    ELSE IF HasPrefix(pattern, Star) /\ ~HasSuffix(pattern, Star)
         THEN HasSuffix(projectName, TrimPrefix(pattern, Star))
    ELSE FALSE

\* Config.IsProjectIgnored: the loop over c.IgnoredProjects from entry i on.
RECURSIVE IsProjectIgnoredFrom(_, _, _)
IsProjectIgnoredFrom(c, projectName, i) ==
    IF i > Len(c.IgnoredProjects) THEN FALSE
    ELSE IF matchesPattern(projectName, c.IgnoredProjects[i]) THEN TRUE
    ELSE IsProjectIgnoredFrom(c, projectName, i + 1)

IsProjectIgnored(c, projectName) == IsProjectIgnoredFrom(c, projectName, 1)

\* The inner loop of ShouldFilterProject: is projectName among the projects
\* of one group, from entry j on.
RECURSIVE InGroupFrom(_, _, _)
InGroupFrom(projects, projectName, j) ==
    IF j > Len(projects) THEN FALSE
    ELSE IF projects[j] = projectName THEN TRUE
    ELSE InGroupFrom(projects, projectName, j + 1)

\* The outer loop of ShouldFilterProject, from group i on.
RECURSIVE InSomeGroupFrom(_, _, _)
InSomeGroupFrom(c, projectName, i) ==
    IF i > Len(c.ProjectGroups) THEN FALSE
    ELSE IF InGroupFrom(c.ProjectGroups[i].Projects, projectName, 1) THEN TRUE
    ELSE InSomeGroupFrom(c, projectName, i + 1)

\* Mutant of ShouldFilterProject: the groups are not consulted.
ShouldFilterProject_IgnoredOnly(c, projectName) ==
    IsProjectIgnored(c, projectName)

\* Config.ShouldFilterProject.
ShouldFilterProject(c, projectName) ==
    IF InSomeGroupFrom(c, projectName, 1) THEN FALSE
    ELSE IsProjectIgnored(c, projectName)

\* The configurations LoadConfig can produce: PROJECT_GROUPS with no group,
\* one group of up to two projects or two groups of up to one project each,
\* and IGNORED_PROJECTS with up to two patterns.
Group(name, projects) ==
    [Name |-> name, Description |-> "", Projects |-> projects]

ShortLists(S) == {<<>>} \cup {<<x>> : x \in S}
PairLists(S) == {<<x, y>> : x \in S, y \in S}

GroupLists ==
    {<<>>}
      \cup {<<Group("G1", ps)>> : ps \in ShortLists(ProjectNames) \cup PairLists(ProjectNames)}
      \cup {<<Group("G1", ps), Group("G2", qs)>> :
               ps \in ShortLists(ProjectNames), qs \in ShortLists(ProjectNames)}

Configs ==
    {[ProjectGroups |-> gs, IgnoredProjects |-> ig, CacheTTL |-> 0] :
        gs \in GroupLists, ig \in ShortLists(Patterns) \cup PairLists(Patterns)}

\* A caller asks the Config whether a project is to be filtered out.
ShouldFilterProject_Call(projectName) ==
    /\ cfgop.op = "none"
    /\ cfgop' = [op |-> "ShouldFilterProject", name |-> projectName,
                 result |-> ShouldFilterProject(config, projectName)]
    /\ UNCHANGED <<authVars, now, ticks, request, theCache, mu, cop, chist,
                   config, svc>>

\* The caller takes the answer.
Config_Return ==
    /\ cfgop.op # "none"
    /\ cfgop' = NoConfigCall
    /\ UNCHANGED <<authVars, now, ticks, request, theCache, mu, cop, chist,
                   config, svc>>

\* ------------------------------------------- the configuration scenario
\* Any of the configurations is loaded and callers query it with any name.
InitConfig ==
    /\ AuthInit(<<>>)
    /\ request = <<>>
    /\ theCache = NewCache(0)
    /\ mu = FreeRW
    /\ cop = <<>>
    /\ chist = NoSet
    /\ config \in Configs
    /\ cfgop = NoConfigCall
    /\ svc = NoService

NextConfig ==
    \/ \E projectName \in ProjectNames : ShouldFilterProject_Call(projectName)
    \/ Config_Return

SpecConfig == InitConfig /\ [][NextConfig]_vars

\* The names listed in a configured group, and whether some ignore pattern
\* matches a name.
GroupedNames ==
    UNION {{config.ProjectGroups[i].Projects[j] :
               j \in DOMAIN config.ProjectGroups[i].Projects} :
           i \in DOMAIN config.ProjectGroups}

SomePatternMatches(projectName) ==
    \E k \in DOMAIN config.IgnoredProjects :
        matchesPattern(projectName, config.IgnoredProjects[k])

\* C24: ShouldFilterProject(p) is false for every p listed in a configured
\* group, whatever the ignore patterns; for p in no group it is true exactly
\* when some ignore pattern matches p.
C24_GroupsOverrideIgnore ==
    cfgop.op = "ShouldFilterProject"
        => IF cfgop.name \in GroupedNames
           THEN cfgop.result = FALSE
           ELSE cfgop.result = SomePatternMatches(cfgop.name)

\* ShouldFilterProject has answered false for a project of the second group
\* that the second ignore pattern matches.
C24_Witness ==
    /\ cfgop.op = "ShouldFilterProject"
    /\ Len(config.ProjectGroups) > 1
    /\ Len(config.IgnoredProjects) > 1
    /\ LET lastGroup == config.ProjectGroups[Len(config.ProjectGroups)]
           lastPattern == config.IgnoredProjects[Len(config.IgnoredProjects)]
       IN  /\ lastGroup.Projects = <<cfgop.name>>
           /\ ~matchesPattern(cfgop.name, config.IgnoredProjects[1])
           /\ matchesPattern(cfgop.name, lastPattern)
    /\ cfgop.result = FALSE

\* ------------------------------------------------------- the ArgoCD service
\* The auth service handed to NewArgocdService: one whose
\* CreateAuthenticatedRequest returns a request carrying its token, and one
\* whose CreateAuthenticatedRequest returns its error.
AuthServices ==
    {[token |-> "test-token", err |-> NoErr], [token |-> "", err |-> "auth error"]}

\* What the upstream lists: the names of its projects, or the project of
\* each of its applications.
UpstreamNames == {<<"a">>, <<"b">>}
Listings == ShortLists(UpstreamNames) \cup PairLists(UpstreamNames)

\* The outcomes of httpClient.Do: a 200 response with a list, a response
\* with another status, a 200 response whose body does not decode, and no
\* response at all.
ServiceReplies ==
    {[kind |-> "ok", items |-> l] : l \in Listings}
      \cup {[kind |-> k, items |-> <<>>] : k \in {"status", "garbage", "transport"}}

\* No call has completed on the service yet.
NoCall == [ok |-> FALSE, op |-> "none", at |-> ZeroTime, items |-> <<>>, upstream |-> 0]

\* NewArgocdService(cfg, authSvc); upstream counts the requests the
\* upstream server has received, prev is the last completed call.
NewArgocdService(authSvc) ==
    [present |-> TRUE, auth |-> authSvc, pc |-> "idle", op |-> "none",
     items |-> <<>>, err |-> NoErr, upstream |-> 0, prev |-> NoCall]

\* The filter loop of GetApplications over the decoded items.
RECURSIVE FilterApplications(_, _)
FilterApplications(c, items) ==
    IF items = <<>> THEN <<>>
    ELSE IF ~ShouldFilterProject(c, Head(items))
         THEN <<Head(items)>> \o FilterApplications(c, Tail(items))
         ELSE FilterApplications(c, Tail(items))

\* What GetProjects or GetApplications returns once httpClient.Do has
\* returned with the reply.
ServiceResult(c, op, reply) ==
    CASE reply.kind = "transport" ->
            [items |-> <<>>, err |-> "failed to execute request to ArgoCD"]
      [] reply.kind = "status" ->
            [items |-> <<>>, err |-> "ArgoCD API returned status"]
      [] reply.kind = "garbage" ->
            [items |-> <<>>, err |-> "failed to decode response"]
      [] reply.kind = "ok" ->
            [items |-> IF op = "GetApplications"
                       THEN FilterApplications(c, reply.items)
                       ELSE reply.items,
             err |-> NoErr]

\* A caller calls GetProjects or GetApplications: the service asks its auth
\* service for an authenticated GET request and, unless that fails, sends it.
ArgocdService_Call(op) ==
    /\ svc.present
    /\ svc.pc = "idle"
    /\ svc.upstream < MaxRequests
    /\ svc' = IF svc.auth.err # NoErr
              THEN [svc EXCEPT !.pc = "done", !.op = op, !.items = <<>>,
                               !.err = "failed to create authenticated request"]
              ELSE [svc EXCEPT !.pc = "sent", !.op = op, !.items = <<>>,
                               !.err = NoErr]
    /\ UNCHANGED <<authVars, now, ticks, request, theCache, mu, cop, chist,
                   config, cfgop>>

\* httpClient.Do returns and the call runs to its return statement; every
\* reply but a transport failure is a request the upstream server received.
ArgocdService_Do(reply) ==
    /\ svc.present
    /\ svc.pc = "sent"
    /\ svc' = [svc EXCEPT
                 !.pc = "done",
                 !.items = ServiceResult(config, svc.op, reply).items,
                 !.err = ServiceResult(config, svc.op, reply).err,
                 !.upstream = IF reply.kind = "transport" THEN @ ELSE @ + 1]
    /\ UNCHANGED <<authVars, now, ticks, request, theCache, mu, cop, chist,
                   config, cfgop>>

\* The caller takes the result and is free to call again.
ArgocdService_Return ==
    /\ svc.present
    /\ svc.pc = "done"
    /\ svc' = [svc EXCEPT
                 !.pc = "idle", !.op = "none", !.items = <<>>, !.err = NoErr,
                 !.prev = [ok |-> svc.err = NoErr, op |-> svc.op, at |-> now,
                           items |-> svc.items, upstream |-> svc.upstream]]
    /\ UNCHANGED <<authVars, now, ticks, request, theCache, mu, cop, chist,
                   config, cfgop>>

\* ------------------------------------------------- the service scenario
\* The service is built over a configuration with or without a group, with
\* or without an ignore pattern and with a cache TTL of zero or more, and
\* one caller calls GetProjects and GetApplications one after the other
\* while time passes.
CacheTTLs == {0, 3}

ServiceConfigs ==
    {[ProjectGroups |-> gs, IgnoredProjects |-> ig, CacheTTL |-> ttl] :
        gs \in {<<>>, <<Group("G1", <<<<"a">>>>)>>},
        ig \in {<<>>, <<<<"a", "*">>>>},
        ttl \in CacheTTLs}

InitService ==
    /\ AuthInit(<<>>)
    /\ request = <<>>
    /\ theCache = NewCache(0)
    /\ mu = FreeRW
    /\ cop = <<>>
    /\ chist = NoSet
    /\ config \in ServiceConfigs
    /\ cfgop = NoConfigCall
    /\ \E authSvc \in AuthServices : svc = NewArgocdService(authSvc)

NextService ==
    \/ Tick
    \/ \E op \in {"GetProjects", "GetApplications"} : ArgocdService_Call(op)
    \/ \E reply \in ServiceReplies : ArgocdService_Do(reply)
    \/ ArgocdService_Return

SpecService == InitService /\ [][NextService]_vars

\* C23: with a cache TTL > 0, when a successful GetProjects (GetApplications)
\* call follows a successful GetProjects (GetApplications) call within the
\* TTL, the second call causes no upstream request and returns the same
\* items as the first.
C23_SecondCallServedFromCache ==
    (/\ svc.present
     /\ svc.pc = "done"
     /\ svc.err = NoErr
     /\ svc.prev.ok
     /\ svc.prev.op = svc.op
     /\ config.CacheTTL > 0
     /\ now - svc.prev.at <= config.CacheTTL)
        => /\ svc.upstream = svc.prev.upstream
           /\ svc.items = svc.prev.items

\* The callers of the concurrent-callers scenario to which GetValidToken
\* has returned, and those that made an exchange.
HerdReturned == {p \in HerdCallers : pc[p] \in {"done", "finished"}}
HerdRefreshers == {p \in HerdCallers : callExch[p] > 0}

\* C25: of several callers racing on a store that needs a refresh, the
\* authenticator succeeding, exactly one makes an exchange, the first to
\* acquire the lock: while it refreshes every other caller is still at its
\* Lock(), and each of the others returns, with a nil error and without an
\* exchange of its own, the token that exchange stored.
C25_ExactlyOneRefresher ==
    /\ Cardinality(HerdRefreshers) <= 1
    /\ RequestCount(HerdCallers) <= 1
    /\ \A p \in HerdCallers :
          pc[p] \in {"exchange", "response"}
              => \A q \in HerdCallers \ {p} : pc[q] = "gvt_lock"
    /\ HerdReturned # {} =>
          \E r \in HerdReturned :
              /\ HerdRefreshers = {r}
              /\ callExch[r] = 1
              /\ resp[r] \in OkReplies
              /\ tokenCache.Token = resp[r].token
              /\ \A p \in HerdReturned :
                    /\ ret[p] = TokenRet(resp[r].token, NoErr)
                    /\ p # r => callExch[p] = 0 /\ resp[p] = NoReply

\* The caller that made the exchange is not the last to have called nor the
\* last to return: a caller that made none has returned the token it stored
\* while others are still at their Lock().
C25_Witness ==
    \E r, p, q \in HerdCallers :
        /\ r \in HerdRefreshers
        /\ pc[r] = "finished"
        /\ p # r
        /\ pc[p] = "done"
        /\ callExch[p] = 0
        /\ ret[p] = TokenRet(resp[r].token, NoErr)
        /\ pc[q] = "gvt_lock"

\* What GetValidToken returns to a caller whose own exchange got reply r.
OwnResult(r) ==
    IF RefreshError(r) # NoErr THEN TokenRet("", RefreshError(r))
    ELSE TokenRet(r.token, NoErr)

\* C26: a caller that acquires the lock after another caller's refresh
\* checks validity itself: when no usable token is stored (that refresh
\* failed) it makes its own single exchange and returns the result of that
\* exchange, not the other caller's error.  The attempts are sequential, at
\* most one per caller, so N callers against a failing authenticator make
\* up to N of them.
C26_WaiterMakesOwnAttempt ==
    /\ [](/\ Cardinality(InFlight) <= 1
          /\ RequestCount(Attempts) <= Cardinality(Attempts)
          /\ \A p \in AttemptReturned :
                /\ callExch[p] <= 1
                /\ callExch[p] = 1 => ret[p] = OwnResult(resp[p])
                /\ ret[p].err # NoErr => callExch[p] = 1)
    /\ [][\A p \in Attempts :
             (pc[p] \in {"gvt_check", "gvt_recheck"} /\ pc'[p] # pc[p]
                   /\ ~Usable(tokenCache, now))
                 => /\ pc'[p] = "exchange"
                    /\ callExch'[p] = 1
                    /\ \A q \in Attempts \ {p} : pc[q] \notin {"exchange", "response"}]_vars

\* Every caller has made its own attempt and returned an error, one the
\* error of a non-200 status and another the error of an undecodable body.
C26_Witness ==
    /\ \A p \in Attempts :
          pc[p] = "finished" /\ callExch[p] = 1 /\ ret[p].err # NoErr
    /\ RequestCount(Attempts) = Cardinality(Attempts)
    /\ \E p, q \in Attempts :
          /\ ret[p].err = "authentication failed with status"
          /\ ret[q].err = "decode session response"

\* The goroutines inside code that reads a.tokenCache: GetValidToken's
\* validity check and GetTokenStatus past its Lock().
Readers ==
    {p \in DOMAIN pc : pc[p] \in {"gvt_check", "gvt_recheck", "gts_read", "gts_until"}}

\* C27: token, issuedAt and expiresAt change together.  The store is always
\* nil or the whole TokenCache of one refresh; it changes only in one step of
\* the goroutine holding the lock, to nil (InvalidateToken) or to the token
\* of that goroutine's reply with both timestamps taken from the time of the
\* step; no goroutine is reading the store while another is inside code that
\* writes it; and a GetTokenStatus snapshot shows the timestamps of one
\* refresh, those stored with the token.
C27_StoreChangesAsAWhole ==
    /\ []StoreIntact
    /\ [](\A p \in Readers : refreshMutex = p /\ Writers \ {p} = {})
    /\ [](\A p \in StatusReturned :
            /\ ret[p].status.hasToken = tokenCache.present
            /\ tokenCache.present =>
                  /\ ret[p].status.issuedAt = FormatRFC3339(tokenCache.IssuedAt)
                  /\ ret[p].status.expiresAt =
                        FormatRFC3339(tokenCache.IssuedAt + TokenLifetime))
    /\ [][tokenCache' # tokenCache
             => \E p \in Writers :
                   /\ refreshMutex = p
                   /\ Readers = {}
                   /\ \/ pc[p] = "inv_clear" /\ tokenCache' = NilCache
                      \/ /\ pc[p] = "response"
                         /\ resp[p] \in OkReplies
                         /\ tokenCache' = NewTokenCache(resp[p].token, now)]_vars

\* GetTokenStatus has returned the whole snapshot of a token that is no
\* longer valid, having taken the lock ahead of a GetValidToken call that
\* is waiting at its Lock() to replace that token.
C27_Witness ==
    \E p \in StatusReturned :
        /\ ret[p].status.hasToken
        /\ ~ret[p].status.isValid
        /\ ret[p].status.issuedAt = FormatRFC3339(tokenCache.IssuedAt)
        /\ ret[p].status.expiresAt = FormatRFC3339(tokenCache.ExpiresAt)
        /\ \E q \in Procs \ {p} : pc[q] = "gvt_lock"

\* The goroutines whose refresh is succeeding, and those whose
\* InvalidateToken is clearing the store, in the step being taken.
RefreshSucceeds(p) ==
    /\ pc[p] = "response"
    /\ RefreshError(resp[p]) = NoErr
    /\ pc'[p] = "done"

InvalidateClears(p) ==
    /\ pc[p] = "inv_clear"
    /\ pc'[p] = "done"

\* C28: the store starts EMPTY and moves only along the state machine:
\* EMPTY or STALE to VALID by a successful refresh, which always lands in
\* VALID; VALID to STALE by the clock alone, the stored fields untouched; a
\* populated store to EMPTY by InvalidateToken alone.  EMPTY never becomes
\* STALE, and no other step (a failed refresh, GetTokenStatus, a
\* GetValidToken that makes no exchange, the routine's loop) changes the
\* stored fields.
C28_StoreStateMachine ==
    /\ StoreState(tokenCache, now) = "EMPTY"
    /\ [][LET from == StoreState(tokenCache, now)
              to == StoreState(tokenCache', now')
          IN  /\ (\E p \in Procs : RefreshSucceeds(p)) => to = "VALID"
              /\ (from # "VALID" /\ to = "VALID") => \E p \in Procs : RefreshSucceeds(p)
              /\ (from = "VALID" /\ to = "STALE")
                    => now' > now /\ tokenCache' = tokenCache
              /\ (from # "EMPTY" /\ to = "EMPTY") => \E p \in Procs : InvalidateClears(p)
              /\ ~(from = "EMPTY" /\ to = "STALE")
              /\ ~(from = "STALE" /\ to = "STALE" /\ tokenCache' # tokenCache)
              /\ tokenCache' # tokenCache
                    => \E p \in Procs : RefreshSucceeds(p) \/ InvalidateClears(p)]_vars

\* The store is EMPTY because InvalidateToken cleared a token that a refresh
\* had stored and time had made STALE.
C28_Witness ==
    /\ StoreState(tokenCache, now) = "EMPTY"
    /\ cleared = "STALE"

\* The goroutines to which GetValidToken has just returned the token of
\* their own successful exchange.
JustRefreshed ==
    {p \in TokenReturned : callExch[p] = 1 /\ ret[p].err = NoErr}

\* C29: a successful refresh stores issuedAt = the time of the refresh and
\* expiresAt = issuedAt + 23 hours, and the store is VALID as the refresh
\* returns; in every populated state issuedAt <= expiresAt (and expiresAt is
\* issuedAt + 23 hours).
C29_RefreshStamps ==
    /\ \A p \in JustRefreshed :
          /\ tokenCache.present
          /\ tokenCache.Token = resp[p].token
          /\ tokenCache.IssuedAt = now
          /\ tokenCache.ExpiresAt = now + TokenLifetime
          /\ StoreState(tokenCache, now) = "VALID"
          /\ Usable(tokenCache, now)
    /\ tokenCache.present =>
          /\ tokenCache.IssuedAt <= tokenCache.ExpiresAt
          /\ tokenCache.ExpiresAt - tokenCache.IssuedAt = TokenLifetime

\* A refresh has just stored a token, more than one token lifetime after
\* the service was built.
C29_Witness ==
    \E p \in JustRefreshed :
        /\ now > TokenLifetime
        /\ tokenCache.IssuedAt = now

\* C30: a populated store holds a non-empty token; a 200 reply carrying an
\* empty token makes GetValidToken return an error and no token and is not
\* stored; GetValidToken never returns an empty token with a nil error.
C30_TokenNeverEmpty ==
    /\ tokenCache.present => tokenCache.Token # ""
    /\ \A p \in TokenReturned :
          /\ ret[p].err = NoErr => ret[p].token # ""
          /\ resp[p] = [kind |-> "ok", token |-> ""]
                => /\ ret[p].err = "received empty token"
                   /\ ret[p].token = ""
                   /\ tokenCache.present => tokenCache.Token # resp[p].token

\* GetValidToken has just returned the error of an empty-token reply on a
\* store that still holds the stale token it had.
C30_Witness ==
    \E p \in TokenReturned :
        /\ resp[p] = [kind |-> "ok", token |-> ""]
        /\ ret[p].err = "received empty token"
        /\ tokenCache.present
        /\ tokenCache.Token \in Tokens

\* The keys of the status map for an empty and for a populated store.
EmptyStatusKeys == {"hasToken", "isValid"}
FullStatusKeys ==
    {"hasToken", "isValid", "issuedAt", "expiresAt", "timeUntilExpiry", "expiringSoon"}

\* C31: GetTokenStatus reports hasToken true exactly when the store is
\* populated.  For an empty store (never refreshed, every refresh failed, or
\* invalidated) the map has hasToken false, isValid false and no other key;
\* for a populated store it has all six keys.
C31_StatusFields ==
    \A p \in StatusReturned :
        /\ ret[p].status.hasToken = tokenCache.present
        /\ ~tokenCache.present =>
              /\ DOMAIN ret[p].status = EmptyStatusKeys
              /\ ~ret[p].status.isValid
        /\ tokenCache.present => DOMAIN ret[p].status = FullStatusKeys

\* GetTokenStatus has just reported the two-key map for a store that
\* InvalidateToken emptied.
C31_Witness ==
    \E p \in StatusReturned :
        /\ cleared \in {"VALID", "STALE"}
        /\ ~tokenCache.present
        /\ DOMAIN ret[p].status = EmptyStatusKeys

\* C32: whenever Get reports a miss (never populated, invalidated, expired,
\* or TTL <= 0) the value it returns is the zero value of T, never the stored
\* or expired value; the result is a value and a boolean, no error.
C32_MissReturnsZero ==
    \A g \in GetReturned :
        /\ DOMAIN cop[g] = {"pc", "op", "value", "hit"}
        /\ cop[g].hit \in BOOLEAN
        /\ ~cop[g].hit => cop[g].value = ZeroValue
        /\ cop[g].hit => cop[g].value \in Values

\* Get has just missed on a cache that still stores the expired value, and
\* returned the zero value.
C32_Witness ==
    \E g \in GetReturned :
        /\ theCache.populated
        /\ theCache.value \in Values
        /\ now - theCache.cachedAt > theCache.ttl
        /\ ~cop[g].hit
        /\ cop[g].value = ZeroValue

\* C33: on a cache with TTL > 0, among concurrent Sets and Gets, no Get reads
\* while a Set is writing, so every Get returns a miss or one whole value
\* that was set: the value of the Set that took the write lock last.  With
\* no Invalidate since that Set and within the TTL of it, a Get is a hit
\* returning that value.
C33_GetSeesLastSet ==
    theCache.ttl > 0 =>
        /\ InsideGet # {} => InsideWrite = {}
        /\ \A g \in GetReturned :
              /\ cop[g].hit => /\ cop[g].value \in Values
                               /\ cop[g].value = chist.value
                               /\ chist.live
              /\ (chist.live /\ ~chist.inv /\ now - chist.setAt <= theCache.ttl)
                    => cop[g].hit /\ cop[g].value = chist.value

\* Two Sets of different values were made at the same clock time, and a Get
\* at that time has returned the value of the one that locked last.
C33_Witness ==
    \E g \in GetReturned :
        /\ theCache.ttl > 0
        /\ chist.live
        /\ chist.prevAt = chist.setAt
        /\ now = chist.setAt
        /\ chist.prevValue = "b"
        /\ chist.value = "a"
        /\ cop[g].hit
        /\ cop[g].value = "a"

\* --------------------------------------------- the pattern-matching scenario
\* matchesPattern is applied (as by IsProjectIgnored and by
\* TestMatchesPattern) to any name and any pattern of up to MaxMatchLen
\* characters; the names include strings with asterisks, identical to
\* patterns.
MatchPatterns == UNION {[1 .. n -> PatternChars] : n \in 0 .. MaxMatchLen}
MatchNames == ProjectNames \cup MatchPatterns

matchesPattern_Call(projectName, pattern) ==
    /\ cfgop.op = "none"
    /\ cfgop' = [op |-> "matchesPattern", name |-> projectName,
                 pattern |-> pattern,
                 result |-> matchesPattern(projectName, pattern)]
    /\ UNCHANGED <<authVars, now, ticks, request, theCache, mu, cop, chist,
                   config, svc>>

InitPattern ==
    /\ AuthInit(<<>>)
    /\ request = <<>>
    /\ theCache = NewCache(0)
    /\ mu = FreeRW
    /\ cop = <<>>
    /\ chist = NoSet
    /\ WebIdle

NextPattern ==
    \/ \E projectName \in MatchNames, pattern \in MatchPatterns :
          matchesPattern_Call(projectName, pattern)
    \/ Config_Return

SpecPattern == InitPattern /\ [][NextPattern]_vars

\* The first and the last character of a non-empty string are asterisks.
StartsWithStar(pattern) == pattern # <<>> /\ pattern[1] = "*"
EndsWithStar(pattern) == pattern # <<>> /\ pattern[Len(pattern)] = "*"

\* The rule of the claim, the text x of a contains pattern given.
PatternRule(name, pattern, x) ==
    \/ name = pattern
    \/ pattern = Star
    \/ /\ Len(pattern) > 1
       /\ StartsWithStar(pattern)
       /\ EndsWithStar(pattern)
       /\ x # <<>>
       /\ Contains(name, x)
    \/ /\ EndsWithStar(pattern)
       /\ ~StartsWithStar(pattern)
       /\ HasPrefix(name, SubSeq(pattern, 1, Len(pattern) - 1))
    \/ /\ StartsWithStar(pattern)
       /\ ~EndsWithStar(pattern)
       /\ HasSuffix(name, SubSeq(pattern, 2, Len(pattern)))

\* A pattern whose only asterisks are interior.
InteriorOnly(pattern) ==
    /\ Contains(pattern, Star)
    /\ ~StartsWithStar(pattern)
    /\ ~EndsWithStar(pattern)

\* C34 (as claimed): matchesPattern(name, pattern) is true exactly when name
\* equals pattern, or pattern is "*", or pattern is "*x*" with x non-empty (x
\* being what lies between the first and the last asterisk) and name contains
\* x, or pattern ends but does not start with "*" and name starts with the
\* part before the final "*", or pattern starts but does not end with "*" and
\* name ends with the part after the first "*".
C34_PatternRuleAsClaimed ==
    cfgop.op = "matchesPattern"
        => cfgop.result =
              PatternRule(cfgop.name, cfgop.pattern,
                          SubSeq(cfgop.pattern, 2, Len(cfgop.pattern) - 1))

\* C34 (amended): the same with x being the pattern with all its leading and
\* trailing asterisks removed; and a pattern whose only asterisks are
\* interior matches nothing but the identical string.
C34_PatternRule ==
    cfgop.op = "matchesPattern"
        => /\ cfgop.result =
                 PatternRule(cfgop.name, cfgop.pattern, Trim(cfgop.pattern))
           /\ InteriorOnly(cfgop.pattern)
                 => cfgop.result = (cfgop.name = cfgop.pattern)

\* matchesPattern has matched the name "a" against the pattern "**a*",
\* whose text between the first and the last asterisk is "*a".
C34_Witness ==
    /\ cfgop.op = "matchesPattern"
    /\ cfgop.name = <<"a">>
    /\ cfgop.pattern = <<"*", "*", "a", "*">>
    /\ cfgop.result = TRUE

\* ------------------------------------------------------- GetProjectGroups
\* GetProjectGroups, "Create a map of all grouped projects": the keys of
\* groupedProjects after the two loops.
GroupedProjects(c) ==
    UNION {{c.ProjectGroups[i].Projects[j] : j \in 1 .. Len(c.ProjectGroups[i].Projects)} :
           i \in 1 .. Len(c.ProjectGroups)}

\* GetProjectGroups, "Find ungrouped projects": the loop over allProjects
\* from entry i on, appending to the list so far.
RECURSIVE UngroupedFrom(_, _, _, _)
UngroupedFrom(c, allProjects, i, sofar) ==
    IF i > Len(allProjects) THEN sofar
    ELSE IF /\ allProjects[i] \notin GroupedProjects(c)
            /\ ~IsProjectIgnored(c, allProjects[i])
         THEN UngroupedFrom(c, allProjects, i + 1, Append(sofar, allProjects[i]))
         ELSE UngroupedFrom(c, allProjects, i + 1, sofar)

\* Mutant of GetProjectGroups: the ungrouped projects computed as
\* FilterProjects does, from the ignore patterns alone.
GetProjectGroups_IgnoredOnly(c, allProjects) ==
    [Groups |-> c.ProjectGroups,
     UngroupedProjects |-> SelectSeq(allProjects, LAMBDA n : ~IsProjectIgnored(c, n))]

\* Config.GetProjectGroups.
GetProjectGroups(c, allProjects) ==
    [Groups |-> c.ProjectGroups,
     UngroupedProjects |-> UngroupedFrom(c, allProjects, 1, <<>>)]

\* A caller asks the Config for the groups, with the list of all projects.
GetProjectGroups_Call(allProjects) ==
    /\ cfgop.op = "none"
    /\ cfgop' = [op |-> "GetProjectGroups", allProjects |-> allProjects,
                 result |-> GetProjectGroups(config, allProjects)]
    /\ UNCHANGED <<authVars, now, ticks, request, theCache, mu, cop, chist,
                   config, svc>>

\* ---------------------------------------------- the project-groups scenario
\* A configuration with any of the group lists and at most one ignore
\* pattern is loaded, and callers ask for the groups with any list of up to
\* three projects.
GroupsConfigs ==
    {[ProjectGroups |-> gs, IgnoredProjects |-> ig, CacheTTL |-> 0] :
        gs \in GroupLists, ig \in ShortLists(Patterns)}

ProjectLists ==
    ShortLists(ProjectNames) \cup PairLists(ProjectNames)
        \cup {<<x, y, z>> : x \in ProjectNames, y \in ProjectNames, z \in ProjectNames}

InitGroups ==
    /\ AuthInit(<<>>)
    /\ request = <<>>
    /\ theCache = NewCache(0)
    /\ mu = FreeRW
    /\ cop = <<>>
    /\ chist = NoSet
    /\ config \in GroupsConfigs
    /\ cfgop = NoConfigCall
    /\ svc = NoService

NextGroups ==
    \/ \E allProjects \in ProjectLists : GetProjectGroups_Call(allProjects)
    \/ Config_Return

SpecGroups == InitGroups /\ [][NextGroups]_vars

\* C35: GetProjectGroups(allProjects) returns the configured groups
\* unchanged and, as UngroupedProjects, exactly the entries of allProjects
\* that are in no configured group and match no ignore pattern, in their
\* input order; no project is both in a group and in UngroupedProjects.
C35_UngroupedProjects ==
    cfgop.op = "GetProjectGroups"
        => /\ cfgop.result.Groups = config.ProjectGroups
           /\ cfgop.result.UngroupedProjects =
                 SelectSeq(cfgop.allProjects,
                           LAMBDA n : n \notin GroupedNames /\ ~SomePatternMatches(n))
           /\ \A k \in DOMAIN cfgop.result.UngroupedProjects :
                 cfgop.result.UngroupedProjects[k] \notin GroupedNames

\* Of three projects the first and the third, different ones, are returned
\* in that order, the second being in a group; in another configuration an
\* ignore pattern would have dropped it.
C35_Witness ==
    /\ cfgop.op = "GetProjectGroups"
    /\ Len(cfgop.allProjects) > 2
    /\ cfgop.allProjects[1] # cfgop.allProjects[Len(cfgop.allProjects)]
    /\ cfgop.allProjects[Len(cfgop.allProjects) - 1] \in GroupedNames
    /\ config.IgnoredProjects # <<>>
    /\ cfgop.result.UngroupedProjects =
          <<cfgop.allProjects[1], cfgop.allProjects[Len(cfgop.allProjects)]>>

\* The goroutines inside GetValidToken that hold the lock they have just
\* acquired and are about to look at the store.
JustLocked == {p \in DOMAIN pc : pc[p] \in {"gvt_check", "gvt_recheck"}}

\* C36: whenever the coordinator's lock is not held the refreshing flag is
\* false, so no GetValidToken caller that has just acquired the lock sees
\* the flag set (none ever takes the wait branch), and every caller that
\* finds no valid token goes on to refresh while it holds the lock.
C36_FlagOnlyUnderLock ==
    /\ [](MutexFree => ~refreshingToken)
    /\ [](\A p \in DOMAIN pc :
             /\ p \in JustLocked => refreshMutex = p /\ ~refreshingToken
             /\ pc[p] # "gvt_wait"
             /\ pc[p] \in {"exchange", "response"}
                   => refreshMutex = p /\ refreshingToken)
    /\ [][\A p \in JustLocked :
             (pc'[p] # pc[p] /\ ~(tokenCache.present /\ isTokenValid(tokenCache, now)))
                => /\ pc'[p] = "exchange"
                   /\ refreshMutex' = p
                   /\ refreshingToken']_vars

\* A caller that found a stored token no longer valid is refreshing it, the
\* flag set under its lock, while another caller waits for the lock.
C36_Witness ==
    \E p \in DOMAIN pc :
        /\ pc[p] = "exchange"
        /\ refreshMutex = p
        /\ refreshingToken
        /\ tokenCache.present
        /\ ~isTokenValid(tokenCache, now)
        /\ \E q \in DOMAIN pc \ {p} : pc[q] = "gvt_lock"

\* C37 as claimed: in every GetTokenStatus snapshot with hasToken true,
\* isValid and expiringSoon are never both true, they are both false only
\* with exactly the 5-minute margin left, and for every other remaining time
\* isValid is the negation of expiringSoon.
C37_ValidOrSoon ==
    \A p \in StatusReturned :
        ret[p].status.hasToken =>
            LET st == ret[p].status
                left == tokenCache.ExpiresAt - now
            IN  /\ ~(st.isValid /\ st.expiringSoon)
                /\ (~st.isValid /\ ~st.expiringSoon) => left = SafetyMargin
                /\ left # SafetyMargin => st.isValid = ~st.expiringSoon

\* C39: Get never changes the cache (its value, timestamp, TTL and populated
\* flag), and once a Get has missed every later Get misses until the next
\* Set, whatever Gets and Invalidates come between: a Get returns a hit only
\* if no Get has missed since the most recent Set.
C39_MissesUntilNextSet ==
    /\ [](\A g \in GetReturned :
             /\ cop[g].hit => chist.misses = 0
             /\ ~cop[g].hit => chist.misses > 0)
    /\ [][\A g \in DOMAIN cop :
             (cop'[g] # cop[g] /\ cop'[g].op = "Get") => theCache' = theCache]_vars

\* Get has just missed, not for the first time since the most recent Set:
\* the value that Set stored has expired and has been invalidated since.
C39_Witness ==
    \E g \in GetReturned :
        /\ ~cop[g].hit
        /\ chist.misses > 1
        /\ chist.inv
        /\ chist.setAt # ZeroTime
        /\ theCache.ttl > 0
        /\ now - chist.setAt > theCache.ttl

\* ------------------------------------------------ the termination scenario
\* The refresh routine is running; one request goroutine calls GetValidToken
\* again and again, and another GetTokenStatus and InvalidateToken in any
\* order, while time passes; the upstream answers a session request with a
\* token or, after the client's timeout, not at all, and the context of a
\* GetValidToken call may be cancelled.
LiveCallers == {1, 2}
LiveReplies == {r \in AllReplies : r.kind = "transport" \/ r \in OkReplies}
TokenCaller == CHOOSE p \in LiveCallers : \A q \in LiveCallers : p <= q

InitLive ==
    InitOf([p \in LiveCallers \cup {BG} |-> IF p = BG THEN "bg_select" ELSE "idle"])

\* A request goroutine makes a call.
LiveCall(p) ==
    IF p = TokenCaller
    THEN GetValidToken_Call(p)
    ELSE GetTokenStatus_Call(p) \/ InvalidateToken_Call(p)

\* A step of a request goroutine inside a call it has made, up to its
\* return.
LiveStep(p) ==
    \/ GetValidToken_Step(p, LiveReplies)
    \/ pc[p] = "gts_lock" /\ GetTokenStatus_Lock(p)
    \/ GetTokenStatus_Read(p)
    \/ GetTokenStatus_Until(p)
    \/ pc[p] = "inv_lock" /\ InvalidateToken_Lock(p)
    \/ InvalidateToken_Clear(p)
    \/ Return(p)

\* A step of the routine's loop and of the GetValidToken call it makes.
LiveRoutineStep ==
    \/ Routine_Tick
    \/ Routine_Loop
    \/ GetValidToken_Step(BG, LiveReplies)

NextLive ==
    \/ Tick
    \/ LiveRoutineStep
    \/ \E p \in LiveCallers :
          \/ LiveCall(p)
          \/ LiveStep(p)
          \/ Cancel(p)

\* Fair scheduling: a goroutine that can again and again take a step of its
\* call takes one (sync.Mutex hands the lock to a starving waiter), and
\* a.httpClient.Do returns (a reply, an error, its 10 s timeout, or the
\* context's error).  Nothing obliges a goroutine to make a call, or time to
\* pass.
FairLive ==
    /\ SF_vars(LiveRoutineStep)
    /\ \A p \in LiveCallers : SF_vars(LiveStep(p))

SpecLive == InitLive /\ [][NextLive]_vars /\ FairLive

\* The goroutines inside a call of GetValidToken, GetTokenStatus or
\* InvalidateToken that has not returned.
InCall ==
    {p \in DOMAIN pc :
        pc[p] \in {"gvt_lock", "gvt_wait", "gvt_check", "gvt_recheck", "exchange",
                   "response", "gts_lock", "gts_read", "gts_until", "inv_lock",
                   "inv_clear"}}

\* C38: under fair scheduling, every authenticator call terminating, every
\* call of GetValidToken, GetTokenStatus and InvalidateToken returns, the
\* routine's calls included: whenever some call has not returned, one of the
\* goroutines inside a call can take a step (no deadlock), and every call
\* returns with the lock released, GetValidToken on each of its return paths.
C38_EveryCallReturns ==
    /\ \A p \in LiveCallers \cup {BG} : (p \in InCall) ~> (pc[p] = "done")
    /\ [](InCall # {}
             => \/ ENABLED LiveRoutineStep
                \/ \E p \in LiveCallers : ENABLED LiveStep(p))
    /\ [](\A p \in LiveCallers \cup {BG} :
             pc[p] \in {"done", "idle", "bg_select"} => refreshMutex # p)
    /\ [](\A p \in LiveCallers \cup {BG} : pc[p] = "done" => MutexFree)

\* GetValidToken has returned an error to a caller whose context was
\* cancelled, the lock is free, and another caller's InvalidateToken and the
\* routine's GetValidToken are waiting for it.
C38_Witness ==
    \E p \in LiveCallers, q \in LiveCallers :
        /\ pc[p] = "done"
        /\ ret[p].kind = "token"
        /\ ret[p].err # NoErr
        /\ ctxDone[p]
        /\ MutexFree
        /\ pc[q] = "inv_lock"
        /\ pc[BG] = "gvt_lock"

=============================================================================
